---- MODULE Spec2Model ----
(***************************************************************************)
(* Resource-discovery pipeline of canvas.py: the TTL cache, the course /   *)
(* module / item fetchers, the three LLM analysis stages, process_module   *)
(* and the orchestrator helper_resources behind find_resources.            *)
(*                                                                         *)
(* Python strings that the code inspects (names, queries, cache keys) are  *)
(* sequences of one-character strings; strings it only copies or compares  *)
(* whole (titles, types, URLs) are atomic. Dicts with an iteration order   *)
(* are sequences of entries, floats that the code only compares are exact  *)
(* rationals (a numerator n over a denominator d), and every Python value  *)
(* that may be None carries a tag.                                         *)
(***************************************************************************)
EXTENDS Integers, Sequences, FiniteSets, TLC

VARIABLES
    cache,              \* the module's cache: values per cache domain
    cache_timestamps,   \* canvas.py cache_timestamps: write times per domain
    now,                \* time.time(), in seconds
    pc,                 \* position of the find_resources invocation
    runs,               \* find_resources invocations started
    in_query,           \* find_resources argument query
    image_path,         \* find_resources argument image_path
    query,              \* helper_resources local query (after the image step)
    courses,            \* helper_resources local courses
    course_analysis,    \* helper_resources local course_analysis
    course_name,        \* helper_resources local course_name
    modules,            \* helper_resources local modules
    module_analysis,    \* helper_resources local module_analysis
    relevant_modules,   \* helper_resources local relevant_modules
    module_results,     \* results of the process_module tasks, in task order
    result,             \* value returned by find_resources
    task,               \* the process_module task that is running
    best,               \* analyze_query_with_gemini locals best_match, best_score
    stored,             \* the last cache_set call of the cache exerciser, per slot
    calls,              \* collaborator calls of this invocation, in order
    llm,                \* answers of the text-completion collaborator, per stage
    assignments_of      \* course_id get_course_assignments was called with

vars == <<cache, cache_timestamps, now, pc, runs, in_query, image_path,
          query, courses, course_analysis, course_name, modules,
          module_analysis, relevant_modules, module_results, result, task, best,
          stored, calls, llm, assignments_of>>

-----------------------------------------------------------------------------
(* Python values *)

NoneV == [tag |-> "None"]

IsNone(v) == v.tag = "None"

Str(s) == [tag |-> "str", s |-> s]

\* bool(v) of the values the pipeline tests with "if v" / "if not v"
Truthy(v) ==
    CASE v.tag = "None" -> FALSE
      [] v.tag = "str" -> Len(v.s) > 0
      [] v.tag = "list" -> Len(v.l) > 0
      [] v.tag = "courses" -> Len(v.m) > 0
      [] v.tag = "dict" -> v.keys # {}
      [] OTHER -> TRUE

-----------------------------------------------------------------------------
(* Python str operations *)

UpperChars == <<"A","B","C","D","E","F","G","H","I","J","K","L","M",
                "N","O","P","Q","R","S","T","U","V","W","X","Y","Z">>

LowerChars == <<"a","b","c","d","e","f","g","h","i","j","k","l","m",
                "n","o","p","q","r","s","t","u","v","w","x","y","z">>

\* the lower-case letter of every upper-case letter
LowerOf == [c \in {UpperChars[i] : i \in 1..26} |->
               LowerChars[CHOOSE i \in 1..26 : UpperChars[i] = c]]

\* c.lower() of one character
LowerChar(c) == IF c \in DOMAIN LowerOf THEN LowerOf[c] ELSE c

\* s.lower()
Lower(s) == [i \in 1..Len(s) |-> LowerChar(s[i])]

\* s[:n]
Take(s, n) == SubSeq(s, 1, IF Len(s) < n THEN Len(s) ELSE n)

\* needle in hay
Contains(hay, needle) ==
    \E i \in 0..(Len(hay) - Len(needle)) :
        SubSeq(hay, i + 1, i + Len(needle)) = needle

IsSpace(c) == c = " "

\* s.split(): the maximal runs of non-whitespace characters, in order
\* the words of s from position i on: the next word runs from the first
\* character that is no whitespace up to the character before the next
\* whitespace
RECURSIVE SplitFrom(_, _)
SplitFrom(s, i) ==
    IF \A j \in i..Len(s) : IsSpace(s[j]) THEN <<>>
    ELSE LET a == CHOOSE j \in i..Len(s) :
                      ~IsSpace(s[j]) /\ \A k \in i..(j - 1) : IsSpace(s[k])
             b == CHOOSE j \in a..Len(s) :
                      /\ \A k \in a..j : ~IsSpace(s[k])
                      /\ j = Len(s) \/ IsSpace(s[j + 1])
         IN <<SubSeq(s, a, b)>> \o SplitFrom(s, b + 1)

Split(s) == SplitFrom(s, 1)

Digits == <<"0","1","2","3","4","5","6","7","8","9">>

\* str(n) of a non-negative int
RECURSIVE StrOfInt(_)
StrOfInt(n) ==
    IF n < 10 THEN <<Digits[n + 1]>>
    ELSE StrOfInt(n \div 10) \o <<Digits[(n % 10) + 1]>>

Max(a, b) == IF a > b THEN a ELSE b

Min(a, b) == IF a < b THEN a ELSE b

RangeOf(s) == {s[i] : i \in 1..Len(s)}

-----------------------------------------------------------------------------
(* TTL cache *)

CACHE_TTL == [courses |-> 3600, modules |-> 1800, module_items |-> 1800,
              file_urls |-> 3600, course_analysis |-> 7200,
              module_analysis |-> 7200, resource_analysis |-> 7200,
              assignments |-> 1800]

KeyedDomains == {"modules", "module_items", "file_urls", "course_analysis",
                 "module_analysis", "resource_analysis", "assignments"}

\* the module-level dictionaries as first built
CacheInit == [d \in KeyedDomains \cup {"courses"} |->
                 IF d = "courses" THEN NoneV ELSE <<>>]

TimestampsInit == [d \in KeyedDomains \cup {"courses"} |->
                      IF d = "courses" THEN 0 ELSE <<>>]

\* cache_get with an inclusive comparison
FreshAtInclusive(t, stamp, cache_type) == t - stamp <= CACHE_TTL[cache_type]

\* the comparison of cache_get: current_time - timestamp < CACHE_TTL[type]
FreshAt(t, stamp, cache_type) == t - stamp < CACHE_TTL[cache_type]

\* cache_get(cache_type) for the single-item cache, at time t
CacheGetSingle(c, ts, t, cache_type) ==
    IF ~IsNone(c[cache_type]) /\ FreshAt(t, ts[cache_type], cache_type)
    THEN c[cache_type]
    ELSE NoneV

\* cache_get(cache_type, key) for a multi-item cache, at time t
CacheGetKeyed(c, ts, t, cache_type, key) ==
    IF /\ key \in DOMAIN c[cache_type]
       /\ key \in DOMAIN ts[cache_type]
       /\ FreshAt(t, ts[cache_type][key], cache_type)
    THEN c[cache_type][key]
    ELSE NoneV

\* dict[key] = value
Put(f, key, value) == (key :> value) @@ f

\* cache_set(cache_type, value): the new cache and the new cache_timestamps
CacheSetSingle(c, ts, t, cache_type, value) ==
    [c |-> [c EXCEPT ![cache_type] = value],
     ts |-> [ts EXCEPT ![cache_type] = t]]

\* a cache_set that leaves the timestamp out
CacheSetKeyedValueOnly(c, ts, t, cache_type, value, key) ==
    [c |-> [c EXCEPT ![cache_type] = Put(@, key, value)], ts |-> ts]

\* cache_set(cache_type, value, key)
CacheSetKeyed(c, ts, t, cache_type, value, key) ==
    [c |-> [c EXCEPT ![cache_type] = Put(@, key, value)],
     ts |-> [ts EXCEPT ![cache_type] = Put(@, key, t)]]

-----------------------------------------------------------------------------
(* get_courses: the mapping name -> id, in insertion order *)

HasName(m, name) == \E i \in 1..Len(m) : m[i].name = name

IndexOfName(m, name) == CHOOSE i \in 1..Len(m) : m[i].name = name

\* courses[name]
IdOf(m, name) == m[IndexOfName(m, name)].id

\* out.update({name: id}): a known name keeps its place and takes the new id
DictUpdate(m, name, id) ==
    IF HasName(m, name)
    THEN [m EXCEPT ![IndexOfName(m, name)].id = id]
    ELSE Append(m, [name |-> name, id |-> id])

\* the loop of get_courses over the decoded response, from entry i on
RECURSIVE BuildCourses(_, _, _)
BuildCourses(body, i, out) ==
    IF i > Len(body) THEN out
    ELSE BuildCourses(body, i + 1,
             IF "id" \in DOMAIN body[i] /\ "name" \in DOMAIN body[i]
             THEN DictUpdate(out, body[i].name, body[i].id)
             ELSE out)

Courses(m) == [tag |-> "courses", m |-> m]

\* get_courses after a cache miss: the value returned and whether it is cached
FetchCourses(resp) ==
    IF resp.kind # "ok" THEN [value |-> NoneV, store |-> FALSE]
    ELSE LET out == BuildCourses(resp.body, 1, <<>>)
         IN IF Len(out) > 0
            THEN [value |-> Courses(out), store |-> TRUE]
            ELSE [value |-> NoneV, store |-> FALSE]

-----------------------------------------------------------------------------
(* LLM responses: cleaning and json.loads *)

NotJson == [tag |-> "notjson"]

\* the response text after the code-fence handling, handed to json.loads:
\* a ```json fence is removed, any other text is parsed as it is
ParseResponse(resp) ==
    IF resp.kind # "text" THEN NotJson
    ELSE IF resp.fence = "plain" THEN NotJson
    ELSE resp.payload

\* query.lower()[:100]
KeyLen == 100

\* a key that keeps the letter case of the query
QueryKeyCased(q) == Take(q, KeyLen)

QueryKey(q) == Take(Lower(q), KeyLen)

-----------------------------------------------------------------------------
(* analyze_query_with_gemini, first stage *)

\* the count without the lower-casing
SimilarityCaseSensitive(name, other) ==
    Cardinality({i \in 1..Min(Len(name), Len(other)) : name[i] = other[i]})

\* sum(1 for a, b in zip(name.lower(), other.lower()) if a == b)
Similarity(name, other) ==
    Cardinality({i \in 1..Min(Len(name), Len(other)) :
                    Lower(name)[i] = Lower(other)[i]})

\* the score similarity / max(len(name), len(other)), as a fraction
PositionalScore(name, other) ==
    [n |-> Similarity(name, other), d |-> Max(Len(name), Len(other))]

\* a > b for fractions with positive denominators
FracGt(a, b) == a.n * b.d > b.n * a.d

ZeroScore == [n |-> 0, d |-> 1]

\* an acceptance test that admits the threshold itself, best_score >= 0.5
AboveHalfInclusive(score) == 2 * score.n >= score.d

\* an acceptance test with a lower threshold, best_score > 0.25
AboveQuarter(score) == 4 * score.n > score.d

\* the acceptance test best_score > 0.5
AboveHalf(score) == 2 * score.n > score.d

\* the loop over courses keeping the best strictly greater score, from entry i
RECURSIVE BestPositional(_, _, _, _)
BestPositional(m, other, i, acc) ==
    IF i > Len(m) THEN acc
    ELSE LET score == PositionalScore(m[i].name, other)
         IN BestPositional(m, other, i + 1,
                IF FracGt(score, acc.score)
                THEN [match |-> Str(m[i].name), score |-> score]
                ELSE acc)

NoBest == [match |-> NoneV, score |-> ZeroScore]

\* a first stage that returns and caches the parsed answer as it came
ClassifyFreshUnvalidated(resp, m) ==
    LET r == ParseResponse(resp)
    IN  IF r.tag = "notjson"
        THEN [value |-> NoneV, store |-> FALSE, best |-> NoBest]
        ELSE [value |-> r, store |-> TRUE, best |-> NoBest]

\* first stage after a cache miss, given the collaborator's response:
\* the value returned and whether cache_set was reached
\* the value returned, whether cache_set was reached, and the best match found
ClassifyFresh(resp, m) ==
    LET r == ParseResponse(resp)
        absent == [value |-> NoneV, store |-> FALSE, best |-> NoBest]
    IN  IF r.tag = "notjson" THEN absent
        ELSE IF r.tag # "dict" THEN [value |-> r, store |-> TRUE, best |-> NoBest]
        ELSE IF "course_name" \in r.keys /\ ~HasName(m, r.course_name)
        THEN LET found == BestPositional(m, r.course_name, 1, NoBest)
             IN IF AboveHalf(found.score)
                THEN IF "reasoning" \in r.keys
                     THEN [value |-> [r EXCEPT !.course_name = found.match.s,
                                               !.fixed = TRUE],
                           store |-> TRUE, best |-> found]
                     ELSE [absent EXCEPT !.best = found]
                ELSE [absent EXCEPT !.best = found]
        ELSE [value |-> r, store |-> TRUE, best |-> NoBest]

-----------------------------------------------------------------------------
(* analyze_query_with_gemini, second stage *)

ModuleNames(course_modules) ==
    [i \in 1..Len(course_modules) |-> course_modules[i].name]

InSeq(x, s) == \E i \in 1..Len(s) : s[i] = x

\* the containment in one direction only, name.lower() in valid_name.lower()
LooseMatchOneWay(name, valid_name) == Contains(Lower(valid_name), Lower(name))

\* name.lower() in valid_name.lower() or valid_name.lower() in name.lower()
LooseMatch(name, valid_name) ==
    \/ Contains(Lower(valid_name), Lower(name))
    \/ Contains(Lower(name), Lower(valid_name))

\* the name appended for one returned name: itself when valid, else the first
\* loosely matching valid name, else nothing
ValidateName(name, valid) ==
    IF InSeq(name, valid) THEN <<name>>
    ELSE IF \E i \in 1..Len(valid) : LooseMatch(name, valid[i])
    THEN <<valid[CHOOSE i \in 1..Len(valid) :
                    /\ LooseMatch(name, valid[i])
                    /\ \A j \in 1..(i - 1) : ~LooseMatch(name, valid[j])]>>
    ELSE <<>>

\* the validation loop over result["module_names"], from entry i on
RECURSIVE ValidateNames(_, _, _)
ValidateNames(names, valid, i) ==
    IF i > Len(names) THEN <<>>
    ELSE ValidateName(names[i], valid) \o ValidateNames(names, valid, i + 1)

\* second stage after a cache miss, given the collaborator's response
SelectFresh(resp, course_modules) ==
    LET r == ParseResponse(resp)
        absent == [value |-> NoneV, store |-> FALSE]
    IN  IF r.tag = "notjson" THEN absent
        ELSE IF r.tag # "dict" THEN [value |-> r, store |-> TRUE]
        ELSE IF "module_names" \in r.keys
        THEN LET valid_results ==
                     ValidateNames(r.module_names, ModuleNames(course_modules), 1)
             IN IF Len(valid_results) = 0 THEN absent
                ELSE [value |-> [r EXCEPT !.module_names = valid_results],
                      store |-> TRUE]
        ELSE [value |-> r, store |-> TRUE]

\* a key built from the id of the course the modules belong to
ModuleKeyResolved(m, q) ==
    StrOfInt(IdOf(m, course_name.s)) \o <<"_">> \o QueryKey(q)

\* f"{course_id}_{query.lower()[:100]}" with the first id of courses
ModuleKey(m, q) == StrOfInt(m[1].id) \o <<"_">> \o QueryKey(q)

-----------------------------------------------------------------------------
(* helper_resources: course matching *)

\* the words of s longer than n characters, lower-cased, in order
RECURSIVE LongWords(_, _, _)
LongWords(words, n, i) ==
    IF i > Len(words) THEN <<>>
    ELSE (IF Len(words[i]) > n THEN <<Lower(words[i])>> ELSE <<>>)
         \o LongWords(words, n, i + 1)

\* set(w.lower() for w in s.split() if len(w) > 3)
WordSet(s) == RangeOf(LongWords(Split(s), 3, 1))

\* overlap / min(len(query_words), len(name_words)), as a fraction
OverlapScore(query_words, name_words) ==
    [n |-> Cardinality(query_words \cap name_words),
     d |-> Min(Cardinality(query_words), Cardinality(name_words))]

\* course_name.lower() in name.lower() or name.lower() in course_name.lower()
SubstringMatch(cname, name) ==
    \/ Contains(Lower(name), Lower(cname))
    \/ Contains(Lower(cname), Lower(name))

\* one pass of the loop "for name in courses" over entry i
MatchStep(q, cname, name, st) ==
    LET query_words == WordSet(q)
        name_words == WordSet(name)
    IN  IF query_words # {} /\ name_words # {}
        THEN LET score == OverlapScore(query_words, name_words)
             IN IF FracGt(score, st.score)
                THEN [st EXCEPT !.match = Str(name), !.score = score]
                ELSE st
        ELSE IF IsNone(cname) THEN [st EXCEPT !.raised = TRUE]
        ELSE IF SubstringMatch(cname.s, name) /\ IsNone(st.match)
        THEN [st EXCEPT !.match = Str(name)]
        ELSE st

RECURSIVE MatchLoop(_, _, _, _, _)
MatchLoop(q, cname, m, i, st) ==
    IF i > Len(m) \/ st.raised THEN st
    ELSE MatchLoop(q, cname, m, i + 1, MatchStep(q, cname, m[i].name, st))

\* best_match_score >= 0.2
AtLeastFifth(score) == 5 * score.n >= score.d

\* some query word longer than 4 characters occurs in name.lower()
KeywordHit(q, name) ==
    LET query_keywords == LongWords(Split(q), 4, 1)
    IN \E k \in 1..Len(query_keywords) : Contains(Lower(name), query_keywords[k])

\* the keyword scan: the first course with a keyword hit
KeywordScan(q, m) ==
    IF \E i \in 1..Len(m) : KeywordHit(q, m[i].name)
    THEN [kind |-> "ok",
          name |-> m[CHOOSE i \in 1..Len(m) :
                        /\ KeywordHit(q, m[i].name)
                        /\ \A j \in 1..(i - 1) : ~KeywordHit(q, m[j].name)].name]
    ELSE [kind |-> "error", name |-> <<>>]

\* the block "if course_name not in courses" of helper_resources
CourseFallback(q, cname, m) ==
    LET st == MatchLoop(q, cname, m, 1,
                        [match |-> NoneV, score |-> ZeroScore, raised |-> FALSE])
    IN  IF st.raised THEN [kind |-> "raise", name |-> <<>>]
        ELSE IF Truthy(st.match) /\ AtLeastFifth(st.score)
        THEN [kind |-> "ok", name |-> st.match.s]
        ELSE IF Truthy(st.match) THEN [kind |-> "ok", name |-> st.match.s]
        ELSE KeywordScan(q, m)

\* the course helper_resources goes on with, for the classifier's course_name
ResolveCourse(q, cname, m) ==
    IF ~IsNone(cname) /\ HasName(m, cname.s)
    THEN [kind |-> "ok", name |-> cname.s]
    ELSE CourseFallback(q, cname, m)

-----------------------------------------------------------------------------
(* helper_resources: module matching *)

\* any(keyword.lower() in module["name"].lower()
\*     for keyword in query.lower().split() if len(keyword) > 3)
ModuleKeywordHit(q, name) ==
    LET keywords == LongWords(Split(Lower(q)), 3, 1)
    IN \E k \in 1..Len(keywords) : Contains(Lower(name), keywords[k])

\* the modules named by the selector first, then the keyword matches
ResolveModulesNamedFirst(mods, relevant_module_names, q, i) ==
    LET Named(m) == InSeq(m.name, relevant_module_names)
        ByKeyword(m) == ~Named(m) /\ ModuleKeywordHit(q, m.name)
    IN SelectSeq(mods, Named) \o SelectSeq(mods, ByKeyword)

\* the loop "for module in modules" building relevant_modules, from entry i on
RECURSIVE ResolveModules(_, _, _, _)
ResolveModules(mods, relevant_module_names, q, i) ==
    IF i > Len(mods) THEN <<>>
    ELSE (IF InSeq(mods[i].name, relevant_module_names) THEN <<mods[i]>>
          ELSE IF ModuleKeywordHit(q, mods[i].name) THEN <<mods[i]>>
          ELSE <<>>)
         \o ResolveModules(mods, relevant_module_names, q, i + 1)

\* module_analysis.get("module_names", [])
GetModuleNames(analysis) ==
    IF "module_names" \in analysis.keys THEN analysis.module_names ELSE <<>>

-----------------------------------------------------------------------------
(* process_module *)

\* get_module_items / get_modules after a cache miss: an empty or failed
\* response is returned as None and not cached
FetchList(resp) ==
    IF resp.kind # "ok" THEN [value |-> NoneV, store |-> FALSE]
    ELSE IF Len(resp.body) = 0 THEN [value |-> NoneV, store |-> FALSE]
    ELSE [value |-> [tag |-> "list", l |-> resp.body], store |-> TRUE]

\* a get_file_url that makes up a URL when the request fails
FetchFileUrlGuessed(resp) ==
    IF resp.kind = "ok" /\ "url" \in DOMAIN resp.body
    THEN [value |-> Str(resp.body.url), store |-> TRUE]
    ELSE [value |-> Str("guess"), store |-> FALSE]

\* get_file_url after a cache miss
FetchFileUrl(resp) ==
    IF resp.kind # "ok" THEN [value |-> NoneV, store |-> FALSE]
    ELSE IF "url" \in DOMAIN resp.body
    THEN [value |-> Str(resp.body.url), store |-> TRUE]
    ELSE [value |-> NoneV, store |-> FALSE]

\* f"{course_id}_{id}" of get_module_items and get_file_url
PairKey(course_id, id) == StrOfInt(course_id) \o <<"_">> \o StrOfInt(id)

\* f"{course_name}_{module_name}_{query.lower()[:100]}"
ResourceKey(cname, mname, q) ==
    cname \o <<"_">> \o mname \o <<"_">> \o QueryKey(q)

\* analyze_resource_relevance after a cache miss: whatever json.loads gives
\* is cached and returned
RankFresh(resp) ==
    LET r == ParseResponse(resp)
    IN IF r.tag = "notjson" THEN [value |-> NoneV, store |-> FALSE]
       ELSE [value |-> r, store |-> TRUE]

\* a ranking without resource_indices read as the first item
GetIndicesOrFirst(analysis) ==
    IF "resource_indices" \in analysis.keys THEN analysis.resource_indices
    ELSE <<0>>

\* resource_analysis.get("resource_indices", [])
GetIndices(analysis) ==
    IF "resource_indices" \in analysis.keys THEN analysis.resource_indices ELSE <<>>

GetScores(analysis) ==
    IF "relevance_scores" \in analysis.keys THEN analysis.relevance_scores ELSE <<>>

\* the default relevance score 0.5
DefaultScore == [n |-> 1, d |-> 2]

\* items[idx] for an idx that passed "idx < len(items)": a negative idx counts
\* from the end; 0 stands for IndexError
ItemPos(idx, n) ==
    IF idx >= 0 THEN idx + 1
    ELSE IF idx >= 0 - n THEN n + idx + 1
    ELSE 0

\* the resource with course_name and module_name exchanged
MakeResourceSwapped(items, idx, idx_pos, relevance_scores, cname, mname) ==
    LET item == items[ItemPos(idx, Len(items))]
    IN [title |-> item.title,
        type |-> item.type,
        url |-> item.html_url,
        course |-> mname,
        module |-> cname,
        relevance_score |-> IF idx_pos <= Len(relevance_scores)
                            THEN relevance_scores[idx_pos]
                            ELSE DefaultScore,
        item |-> item]

\* the resource built for position idx_pos of relevant_indices
MakeResource(items, idx, idx_pos, relevance_scores, cname, mname) ==
    LET item == items[ItemPos(idx, Len(items))]
    IN [title |-> item.title,
        type |-> item.type,
        url |-> item.html_url,
        course |-> cname,
        module |-> mname,
        relevance_score |-> IF idx_pos <= Len(relevance_scores)
                            THEN relevance_scores[idx_pos]
                            ELSE DefaultScore,
        item |-> item]

\* a loop that ends at the first index that is not below len(items)
RECURSIVE BuildResourcesUntilBad(_, _, _, _, _, _)
BuildResourcesUntilBad(items, indices, relevance_scores, cname, mname, idx_pos) ==
    IF idx_pos > Len(indices) \/ indices[idx_pos] >= Len(items) THEN <<>>
    ELSE <<MakeResource(items, indices[idx_pos], idx_pos, relevance_scores,
                        cname, mname)>>
         \o BuildResourcesUntilBad(items, indices, relevance_scores, cname,
                                   mname, idx_pos + 1)

\* a loop that pairs the scores with the resources built, not with the indices
BuildResourcesPacked(items, indices, relevance_scores, cname, mname, idx_pos) ==
    LET InRange(idx) == idx < Len(items)
        kept == SelectSeq(indices, InRange)
    IN [j \in 1..Len(kept) |->
           MakeResource(items, kept[j], j, relevance_scores, cname, mname)]

\* the loop "for idx_pos, idx in enumerate(relevant_indices)", from idx_pos on
RECURSIVE BuildResources(_, _, _, _, _, _)
BuildResources(items, indices, relevance_scores, cname, mname, idx_pos) ==
    IF idx_pos > Len(indices) THEN <<>>
    ELSE (IF indices[idx_pos] < Len(items)
          THEN <<MakeResource(items, indices[idx_pos], idx_pos,
                              relevance_scores, cname, mname)>>
          ELSE <<>>)
         \o BuildResources(items, indices, relevance_scores, cname, mname,
                           idx_pos + 1)

\* items[idx] raises IndexError for some idx of the loop
IndexRaises(items, indices) ==
    \E k \in 1..Len(indices) :
        indices[k] < Len(items) /\ ItemPos(indices[k], Len(items)) = 0

\* the item is a File with a content_id
NeedsFileUrl(item) == item.type = "File" /\ "content_id" \in DOMAIN item

\* resource.pop("item")
PopItem(r) == [k \in DOMAIN r \ {"item"} |-> r[k]]

-----------------------------------------------------------------------------
(* helper_resources: aggregation *)

\* all_relevant_resources.extend(result) over the task results, from task i on
RECURSIVE Concat(_, _)
Concat(lists, i) ==
    IF i > Len(lists) THEN <<>> ELSE lists[i].l \o Concat(lists, i + 1)

\* x inserted in front of the elements with its own score
InsertDescUnstable(sorted, x) ==
    LET k == Cardinality({i \in 1..Len(sorted) :
                 FracGt(sorted[i].relevance_score, x.relevance_score)})
    IN SubSeq(sorted, 1, k) \o <<x>> \o SubSeq(sorted, k + 1, Len(sorted))

\* x inserted behind every element whose score is not smaller than its own
InsertDesc(sorted, x) ==
    LET k == Cardinality({i \in 1..Len(sorted) :
                 ~FracGt(x.relevance_score, sorted[i].relevance_score)})
    IN SubSeq(sorted, 1, k) \o <<x>> \o SubSeq(sorted, k + 1, Len(sorted))

\* sort(key=relevance_score, reverse=True): stable, descending; each insertion
\* is bound to s, so that it is evaluated once
RECURSIVE SortDesc(_, _, _)
SortDesc(l, i, sorted) ==
    IF i > Len(l) THEN sorted
    ELSE CHOOSE r \in {SortDesc(l, i + 1, s) :
                          s \in {InsertDesc(sorted, l[i])}} : TRUE

\* the error objects of find_resources and helper_resources
Err(reason, details) == [tag |-> "error", error |-> reason, details |-> details]

InternalError == Err("Internal server error", "exception")

TaskRaised == [tag |-> "raise", l |-> <<>>]

TaskList(l) == [tag |-> "list", l |-> l]

\* the aggregation with the exception of a task left uncaught
AggregateUncaught(results) ==
    IF \E i \in 1..Len(results) : results[i].tag = "raise" THEN TaskRaised
    ELSE LET all_relevant_resources == SortDesc(Concat(results, 1), 1, <<>>)
         IN IF Len(all_relevant_resources) > 0
            THEN [tag |-> "list", l |-> all_relevant_resources]
            ELSE Err("No relevant resources found", "resources")

\* asyncio.gather of the tasks, then the tail of helper_resources: the first
\* exception of a task is re-raised and caught by find_resources
Aggregate(results) ==
    IF \E i \in 1..Len(results) : results[i].tag = "raise" THEN InternalError
    ELSE LET all_relevant_resources == SortDesc(Concat(results, 1), 1, <<>>)
         IN IF Len(all_relevant_resources) > 0
            THEN [tag |-> "list", l |-> all_relevant_resources]
            ELSE Err("No relevant resources found", "resources")

-----------------------------------------------------------------------------
(* The collaborators' answers explored *)

Algebra == <<"A","l","g","e","b","r","a">>

algebraLower == <<"a","l","g","e","b","r","a">>

LinearAlgebra == <<"L","i","n","e","a","r"," ","A","l","g","e","b","r","a">>

IntroToArt == <<"I","n","t","r","o"," ","t","o"," ","A","r","t">>

LinAlgebra == <<"L","i","n"," ","A","l","g","e","b","r","a">>

HelpWithMatrices == <<"h","e","l","p"," ","w","i","t","h"," ","m","a","t","r","i","c","e","s">>

Matrices == <<"M","a","t","r","i","c","e","s">>

Vectors == <<"V","e","c","t","o","r","s">>

vectorsLower == <<"v","e","c","t","o","r","s">>

Bogus == <<"B","o","g","u","s">>

\* the " - " of f"{query} - {image_query}"
Sep == <<" ","-"," ">>

CatalogA == <<[name |-> Algebra, id |-> 101], [name |-> IntroToArt, id |-> 202]>>

CatalogB == <<[name |-> LinearAlgebra, id |-> 101], [name |-> IntroToArt, id |-> 202]>>

Failed == [kind |-> "fail", body |-> <<>>]

Ok(body) == [kind |-> "ok", body |-> body]

CourseResponses == {Failed, Ok(CatalogA), Ok(CatalogB)}

Mods == <<[id |-> 11, name |-> Matrices], [id |-> 12, name |-> Vectors]>>

ModulesResponses == {Failed, Ok(<<>>), Ok(Mods)}

Items == <<[title |-> "Notes", type |-> "Page", html_url |-> "u0"],
           [title |-> "Slides", type |-> "File", html_url |-> "u1",
            content_id |-> 7]>>

ItemsResponses == {Failed, Ok(<<>>), Ok(Items)}

FileResponses == {Failed, Ok([url |-> "f7"])}

Raise == [kind |-> "raise", fence |-> "none", payload |-> NotJson]

NoCall == [kind |-> "none", fence |-> "none", payload |-> NotJson]

Text(payload) == [kind |-> "text", fence |-> "none", payload |-> payload]

Fenced(fence, payload) == [kind |-> "text", fence |-> fence, payload |-> payload]

CourseDict(name) ==
    [tag |-> "dict", keys |-> {"course_name", "confidence", "reasoning"},
     course_name |-> name, fixed |-> FALSE]

NoCourseName ==
    [tag |-> "dict", keys |-> {"confidence", "reasoning"},
     course_name |-> <<>>, fixed |-> FALSE]

ClassifierResponses ==
    {Raise, Text(NotJson), Text(NoCourseName), Text(CourseDict(Algebra)),
     Text(CourseDict(algebraLower)), Text(CourseDict(LinAlgebra)),
     Fenced("json", CourseDict(LinearAlgebra))}

NamesDict(names) ==
    [tag |-> "dict", keys |-> {"module_names", "relevance_explanations"},
     module_names |-> names]

NoModuleNames ==
    [tag |-> "dict", keys |-> {"relevance_explanations"}, module_names |-> <<>>]

SelectorResponses ==
    {Raise, Fenced("plain", NamesDict(<<Vectors>>)), Text(NoModuleNames),
     Text(NamesDict(<<Vectors>>)), Text(NamesDict(<<vectorsLower>>)),
     Text(NamesDict(<<Bogus>>))}

Frac(n, d) == [n |-> n, d |-> d]

RankDict(indices, scores) ==
    [tag |-> "dict",
     keys |-> {"resource_indices", "relevance_scores", "reasoning"},
     resource_indices |-> indices, relevance_scores |-> scores]

NoIndices ==
    [tag |-> "dict", keys |-> {"reasoning"},
     resource_indices |-> <<>>, relevance_scores |-> <<>>]

JsonArray == [tag |-> "list", l |-> <<1>>]

\* the ranker's answers for the first selected module
RankerResponses ==
    {Raise, Text(NotJson), Text(JsonArray), Text(NoIndices),
     Text(RankDict(<<0>>, <<Frac(9, 10)>>)),
     Text(RankDict(<<1, 0>>, <<Frac(1, 2)>>)),
     Text(RankDict(<<0, 2, 1>>, <<Frac(3, 10), Frac(4, 5), Frac(1, 2)>>)),
     Text(RankDict(<<0>>, <<Frac(3, 2)>>))}

\* the ranker's answers for the modules after the first
SiblingRankerResponses ==
    {Raise, Text(JsonArray), Text(RankDict(<<1, 0>>, <<Frac(1, 2)>>))}

CaptionResponses == {NoneV, Str(HelpWithMatrices)}

Queries == {NoneV, Str(<<>>), Str(HelpWithMatrices)}

Path(exists) == [tag |-> "path", exists |-> exists]

ImagePaths == {NoneV, Path(FALSE), Path(TRUE)}

\* seconds between the return of one invocation and the start of the next
TickSteps == {0, 3600}

MaxRuns == 2

-----------------------------------------------------------------------------
(* State *)

NoTask == [i |-> 0, stage |-> "none", items |-> <<>>, resources |-> <<>>,
           k |-> 0]

NoLlm == [course |-> NoCall, modules |-> NoCall, caption |-> NoneV]

Unset == [tag |-> "unset", value |-> NoneV, at |-> 0]

NoStored == [courses |-> Unset, modules |-> Unset, course_analysis |-> Unset]

Init ==
    /\ cache = CacheInit
    /\ cache_timestamps = TimestampsInit
    /\ now = 0
    /\ pc = "idle"
    /\ runs = 0
    /\ in_query = NoneV
    /\ image_path = NoneV
    /\ query = NoneV
    /\ courses = NoneV
    /\ course_analysis = NoneV
    /\ course_name = NoneV
    /\ modules = NoneV
    /\ module_analysis = NoneV
    /\ relevant_modules = <<>>
    /\ module_results = <<>>
    /\ result = NoneV
    /\ task = NoTask
    /\ best = NoBest
    /\ stored = NoStored
    /\ calls = <<>>
    /\ llm = NoLlm
    /\ assignments_of = NoneV

cacheVars == <<cache, cache_timestamps>>

argVars == <<in_query, image_path>>

\* cache and cache_timestamps after an operation that may have called cache_set
Stored(f, cache_type, key) ==
    IF f.store
    THEN CacheSetKeyed(cache, cache_timestamps, now, cache_type, f.value, key)
    ELSE [c |-> cache, ts |-> cache_timestamps]

StoredSingle(f, cache_type) ==
    IF f.store
    THEN CacheSetSingle(cache, cache_timestamps, now, cache_type, f.value)
    ELSE [c |-> cache, ts |-> cache_timestamps]

Hit(cached) == [value |-> cached, store |-> FALSE, best |-> NoBest]

\* find_resources returns v
Finish(v) == pc' = "done" /\ result' = v

-----------------------------------------------------------------------------
(* find_resources and helper_resources *)

\* the validation without the check of the image path
InputErrorLax(q, img) ==
    IF ~Truthy(q) /\ ~Truthy(img)
    THEN Err("Either query or image_path must be provided", "input")
    ELSE NoneV

\* the input validation of find_resources: the error returned, or None
InputError(q, img) ==
    IF ~Truthy(q) /\ ~Truthy(img)
    THEN Err("Either query or image_path must be provided", "input")
    ELSE IF Truthy(img) /\ ~img.exists /\ ~Truthy(q)
    THEN Err("Image path provided does not exist and no query was provided",
             "input")
    ELSE NoneV

\* find_resources up to the call of helper_resources
Start ==
    /\ pc = "idle"
    /\ runs < MaxRuns
    /\ runs' = runs + 1
    /\ \E q \in Queries, img \in ImagePaths :
        /\ in_query' = q
        /\ image_path' = img
        /\ IF ~IsNone(InputError(q, img))
           THEN Finish(InputError(q, img)) /\ query' = query
           ELSE /\ query' = q
                /\ result' = result
                /\ pc' = IF Truthy(img) /\ img.exists THEN "image" ELSE "courses"
    /\ UNCHANGED <<cacheVars, now, courses, course_analysis,
                   course_name, modules, module_analysis, relevant_modules,
                   module_results, task, best, stored, calls, llm,
                   assignments_of>>

\* helper_resources: the image step
ImageStep ==
    /\ pc = "image"
    /\ \E image_query \in CaptionResponses :
        /\ query' = IF Truthy(image_query) /\ Truthy(query)
                    THEN Str(query.s \o Sep \o image_query.s)
                    ELSE IF Truthy(image_query) THEN image_query
                    ELSE query
        /\ llm' = [llm EXCEPT !.caption = image_query]
    /\ calls' = Append(calls, "vision")
    /\ pc' = "courses"
    /\ UNCHANGED <<cacheVars, now, argVars, runs, courses,
                   course_analysis, course_name, modules, module_analysis,
                   relevant_modules, module_results, result, task, best, stored,
                   assignments_of>>

\* helper_resources step 1: get_courses
GetCourses ==
    /\ pc = "courses"
    /\ LET cached == CacheGetSingle(cache, cache_timestamps, now, "courses")
       IN \E resp \in IF Truthy(cached) THEN {Failed} ELSE CourseResponses :
            LET f == IF Truthy(cached) THEN Hit(cached) ELSE FetchCourses(resp)
                st == StoredSingle(f, "courses")
            IN  /\ cache' = st.c
                /\ cache_timestamps' = st.ts
                /\ calls' = IF Truthy(cached) THEN calls
                            ELSE Append(calls, "fetch_courses")
                /\ courses' = f.value
                /\ IF ~Truthy(f.value)
                   THEN Finish(Err("No courses found", "courses"))
                   ELSE pc' = "classify" /\ result' = result
    /\ UNCHANGED <<now, argVars, runs, query, course_analysis,
                   course_name, modules, module_analysis, relevant_modules,
                   module_results, task, best, stored, llm,
                   assignments_of>>

\* what helper_resources does with the classifier's answer, up to step 3
AfterClassify(analysis) ==
    IF ~Truthy(analysis)
    THEN [kind |-> "error", name |-> <<>>]
    ELSE IF analysis.tag # "dict" THEN [kind |-> "raise", name |-> <<>>]
    ELSE LET cname == IF "course_name" \in analysis.keys
                      THEN Str(analysis.course_name) ELSE NoneV
             rc == ResolveCourse(query.s, cname, courses.m)
         IN IF rc.kind = "error" THEN [kind |-> "nocourse", name |-> <<>>]
            ELSE rc

\* helper_resources step 2: the first stage and the course matching, for the
\* answers the text-completion collaborator may give
ClassifyWith(Responses) ==
    /\ pc = "classify"
    /\ IF IsNone(query)
       THEN /\ Finish(InternalError)
            /\ UNCHANGED <<cacheVars, course_analysis, course_name, best,
                           calls, llm>>
       ELSE LET key == QueryKey(query.s)
                cached == CacheGetKeyed(cache, cache_timestamps, now,
                                        "course_analysis", key)
            IN \E resp \in IF Truthy(cached) THEN {NoCall} ELSE Responses :
                LET f == IF Truthy(cached) THEN Hit(cached)
                         ELSE ClassifyFresh(resp, courses.m)
                    st == Stored(f, "course_analysis", key)
                    after == AfterClassify(f.value)
                IN  /\ cache' = st.c
                    /\ cache_timestamps' = st.ts
                    /\ calls' = IF Truthy(cached) THEN calls
                                ELSE Append(calls, "llm_course")
                    /\ llm' = [llm EXCEPT !.course = resp]
                    /\ best' = f.best
                    /\ course_analysis' = f.value
                    /\ CASE after.kind = "error" ->
                              /\ Finish(Err("Failed to analyze query", "course"))
                              /\ course_name' = course_name
                         [] after.kind = "raise" ->
                              /\ Finish(InternalError)
                              /\ course_name' = course_name
                         [] after.kind = "nocourse" ->
                              /\ Finish(Err("No relevant course found", "query"))
                              /\ course_name' = course_name
                         [] OTHER ->
                              /\ course_name' = Str(after.name)
                              /\ pc' = "modules"
                              /\ result' = result
    /\ UNCHANGED <<now, argVars, runs, query, courses, modules,
                   module_analysis, relevant_modules, module_results, task,
                   stored, assignments_of>>

Classify == ClassifyWith(ClassifierResponses)

\* courses[course_name]
CourseId == IdOf(courses.m, course_name.s)

\* helper_resources step 3: get_modules
GetModules ==
    /\ pc = "modules"
    /\ LET cached == CacheGetKeyed(cache, cache_timestamps, now, "modules",
                                   CourseId)
       IN \E resp \in IF Truthy(cached) THEN {Failed} ELSE ModulesResponses :
            LET f == IF Truthy(cached) THEN Hit(cached) ELSE FetchList(resp)
                st == Stored(f, "modules", CourseId)
            IN  /\ cache' = st.c
                /\ cache_timestamps' = st.ts
                /\ calls' = IF Truthy(cached) THEN calls
                            ELSE Append(calls, "fetch_modules")
                /\ modules' = f.value
                /\ IF ~Truthy(f.value)
                   THEN Finish(Err("No modules found", "course"))
                   ELSE pc' = "select" /\ result' = result
    /\ UNCHANGED <<now, argVars, runs, query, courses, course_analysis,
                   course_name, module_analysis, relevant_modules,
                   module_results, task, best, stored, llm,
                   assignments_of>>

\* a task that starts with the ranking, before its items are fetched
FirstTaskRanking == [i |-> 1, stage |-> "rank", items |-> <<>>,
                     resources |-> <<>>, k |-> 0]

\* a process_module task as it starts
FirstTask == [i |-> 1, stage |-> "items", items |-> <<>>, resources |-> <<>>,
              k |-> 0]

\* helper_resources step 4: the second stage and the module matching, for the
\* answers the text-completion collaborator may give
SelectWith(Responses) ==
    /\ pc = "select"
    /\ LET key == ModuleKey(courses.m, query.s)
           cached == CacheGetKeyed(cache, cache_timestamps, now,
                                   "module_analysis", key)
       IN \E resp \in IF Truthy(cached) THEN {NoCall} ELSE Responses :
            LET f == IF Truthy(cached) THEN Hit(cached)
                     ELSE SelectFresh(resp, modules.l)
                st == Stored(f, "module_analysis", key)
                selected == ResolveModules(modules.l, GetModuleNames(f.value),
                                           query.s, 1)
            IN  /\ cache' = st.c
                /\ cache_timestamps' = st.ts
                /\ calls' = IF Truthy(cached) THEN calls
                            ELSE Append(calls, "llm_modules")
                /\ module_analysis' = f.value
                /\ IF ~Truthy(f.value)
                   THEN /\ Finish(Err("Failed to analyze query", "modules"))
                        /\ UNCHANGED <<relevant_modules, task>>
                   ELSE IF f.value.tag # "dict"
                   THEN /\ Finish(InternalError)
                        /\ UNCHANGED <<relevant_modules, task>>
                   ELSE IF Len(selected) = 0
                   THEN /\ Finish(Err("No relevant modules found", "query"))
                        /\ UNCHANGED <<relevant_modules, task>>
                   ELSE /\ relevant_modules' = selected
                        /\ task' = FirstTask
                        /\ pc' = "task"
                        /\ result' = result
    /\ UNCHANGED <<now, argVars, runs, query, courses, course_analysis,
                   course_name, modules, module_results, best, stored, llm,
                   assignments_of>>

SelectModules == SelectWith(SelectorResponses)

-----------------------------------------------------------------------------
(* The process_module tasks, run one after the other in task order: no call *)
(* of a task suspends, every await is of a coroutine that blocks            *)

CurrentModule == relevant_modules[task.i]

\* a task that starts again whenever it has nothing to contribute
EndTaskRetry(outcome) ==
    LET results == Append(module_results, outcome)
    IN  IF outcome.tag = "list" /\ Len(outcome.l) = 0
        THEN /\ task' = [FirstTask EXCEPT !.i = task.i]
             /\ UNCHANGED <<module_results, pc, result>>
        ELSE /\ module_results' = results
             /\ IF task.i = Len(relevant_modules)
                THEN /\ task' = NoTask
                     /\ Finish(Aggregate(results))
                ELSE /\ task' = [FirstTask EXCEPT !.i = task.i + 1]
                     /\ pc' = pc
                     /\ result' = result

\* a task that asks the ranker once more when the ranking gave it nothing
EndTaskAskAgain(outcome) ==
    LET results == Append(module_results, outcome)
        asked == Cardinality({i \in 1..Len(calls') : calls'[i] = "llm_rank"})
    IN  IF task.stage = "rank" /\ outcome = TaskList(<<>>) /\ asked < 2 * task.i
        THEN UNCHANGED <<task, module_results, pc, result>>
        ELSE /\ module_results' = results
             /\ IF task.i = Len(relevant_modules)
                THEN /\ task' = NoTask
                     /\ Finish(Aggregate(results))
                ELSE /\ task' = [FirstTask EXCEPT !.i = task.i + 1]
                     /\ pc' = pc
                     /\ result' = result

\* the task ends with outcome; after the last task helper_resources goes on
EndTask(outcome) ==
    LET results == Append(module_results, outcome)
    IN  /\ module_results' = results
        /\ IF task.i = Len(relevant_modules)
           THEN /\ task' = NoTask
                /\ Finish(Aggregate(results))
           ELSE /\ task' = [FirstTask EXCEPT !.i = task.i + 1]
                /\ pc' = pc
                /\ result' = result

\* the least position from k on of a resource that needs get_file_url, or 0
NextFile(resources, k) ==
    IF \E j \in k..Len(resources) : NeedsFileUrl(resources[j].item)
    THEN CHOOSE j \in k..Len(resources) :
            /\ NeedsFileUrl(resources[j].item)
            /\ \A h \in k..(j - 1) : ~NeedsFileUrl(resources[h].item)
    ELSE 0

Popped(resources) == [j \in 1..Len(resources) |-> PopItem(resources[j])]

\* the file-URL loop goes on from position k, or the task returns
ContinueFiles(resources, k) ==
    IF NextFile(resources, k) = 0
    THEN EndTask(TaskList(Popped(resources)))
    ELSE /\ task' = [task EXCEPT !.stage = "files", !.resources = resources,
                                 !.k = NextFile(resources, k)]
         /\ UNCHANGED <<module_results, pc, result>>

\* process_module: get_module_items, for the answers the items endpoint may
\* give
TaskItemsWith(Responses) ==
    /\ pc = "task"
    /\ task.stage = "items"
    /\ LET key == PairKey(CourseId, CurrentModule.id)
           cached == CacheGetKeyed(cache, cache_timestamps, now,
                                   "module_items", key)
       IN \E resp \in IF Truthy(cached) THEN {Failed} ELSE Responses :
            LET f == IF Truthy(cached) THEN Hit(cached) ELSE FetchList(resp)
                st == Stored(f, "module_items", key)
            IN  /\ cache' = st.c
                /\ cache_timestamps' = st.ts
                /\ calls' = IF Truthy(cached) THEN calls
                            ELSE Append(calls, "fetch_items")
                /\ IF ~Truthy(f.value)
                   THEN EndTask(TaskList(<<>>))
                   ELSE /\ task' = [task EXCEPT !.stage = "rank",
                                                !.items = f.value.l]
                        /\ UNCHANGED <<module_results, pc, result>>
    /\ UNCHANGED <<now, argVars, runs, query, courses, course_analysis,
                   course_name, modules, module_analysis, relevant_modules,
                   best, stored, llm, assignments_of>>

TaskItems == TaskItemsWith(ItemsResponses)

\* process_module: analyze_resource_relevance and the resource loop, for the
\* answers the text-completion collaborator may give
TaskRankWith(Responses) ==
    /\ pc = "task"
    /\ task.stage = "rank"
    /\ LET key == ResourceKey(course_name.s, CurrentModule.name, query.s)
           cached == CacheGetKeyed(cache, cache_timestamps, now,
                                   "resource_analysis", key)
       IN \E resp \in IF Truthy(cached) THEN {NoCall} ELSE Responses :
            LET f == IF Truthy(cached) THEN Hit(cached) ELSE RankFresh(resp)
                st == Stored(f, "resource_analysis", key)
                resource_analysis == f.value
            IN  /\ cache' = st.c
                /\ cache_timestamps' = st.ts
                /\ calls' = IF Truthy(cached) THEN calls
                            ELSE Append(calls, "llm_rank")
                /\ IF ~Truthy(resource_analysis)
                   THEN EndTask(TaskList(<<>>))
                   ELSE IF resource_analysis.tag # "dict"
                   THEN EndTask(TaskRaised)
                   ELSE IF Len(GetIndices(resource_analysis)) = 0
                   THEN EndTask(TaskList(<<>>))
                   ELSE IF IndexRaises(task.items, GetIndices(resource_analysis))
                   THEN EndTask(TaskRaised)
                   ELSE ContinueFiles(
                            BuildResources(task.items,
                                GetIndices(resource_analysis),
                                GetScores(resource_analysis),
                                course_name.s, CurrentModule.name, 1), 1)
    /\ UNCHANGED <<now, argVars, runs, query, courses, course_analysis,
                   course_name, modules, module_analysis, relevant_modules,
                   best, stored, llm, assignments_of>>

TaskRank ==
    TaskRankWith(IF task.i = 1 THEN RankerResponses ELSE SiblingRankerResponses)

\* process_module: get_file_url for the resource at task.k, for the answers
\* the file endpoint may give
TaskFileWith(Responses) ==
    /\ pc = "task"
    /\ task.stage = "files"
    /\ LET key == PairKey(CourseId, task.resources[task.k].item.content_id)
           cached == CacheGetKeyed(cache, cache_timestamps, now,
                                   "file_urls", key)
       IN \E resp \in IF Truthy(cached) THEN {Failed} ELSE Responses :
            LET f == IF Truthy(cached) THEN Hit(cached) ELSE FetchFileUrl(resp)
                st == Stored(f, "file_urls", key)
                file_url == f.value
                resources == IF Truthy(file_url)
                             THEN [task.resources EXCEPT ![task.k].url = file_url.s]
                             ELSE task.resources
            IN  /\ cache' = st.c
                /\ cache_timestamps' = st.ts
                /\ calls' = IF Truthy(cached) THEN calls
                            ELSE Append(calls, "fetch_file")
                /\ ContinueFiles(resources, task.k + 1)
    /\ UNCHANGED <<now, argVars, runs, query, courses, course_analysis,
                   course_name, modules, module_analysis, relevant_modules,
                   best, stored, llm, assignments_of>>

TaskFile == TaskFileWith(FileResponses)

-----------------------------------------------------------------------------
(* The caller and the clock *)

\* find_resources has returned; the next invocation starts with fresh locals,
\* some time later
Return ==
    /\ pc = "done"
    /\ runs < MaxRuns
    /\ \E d \in TickSteps : now' = now + d
    /\ pc' = "idle"
    /\ in_query' = NoneV
    /\ image_path' = NoneV
    /\ query' = NoneV
    /\ courses' = NoneV
    /\ course_analysis' = NoneV
    /\ course_name' = NoneV
    /\ modules' = NoneV
    /\ module_analysis' = NoneV
    /\ relevant_modules' = <<>>
    /\ module_results' = <<>>
    /\ result' = NoneV
    /\ task' = NoTask
    /\ best' = NoBest
    /\ calls' = <<>>
    /\ llm' = NoLlm
    /\ assignments_of' = NoneV
    /\ UNCHANGED <<cacheVars, runs, stored>>

Next ==
    \/ Start
    \/ ImageStep
    \/ GetCourses
    \/ Classify
    \/ GetModules
    \/ SelectModules
    \/ TaskItems
    \/ TaskRank
    \/ TaskFile
    \/ Return

Spec == Init /\ [][Next]_vars

-----------------------------------------------------------------------------
(* One invocation, every collaborator call of which returns or fails *)

NextOnce ==
    \/ Start
    \/ ImageStep
    \/ GetCourses
    \/ Classify
    \/ GetModules
    \/ SelectModules
    \/ TaskItems
    \/ TaskRank
    \/ TaskFile

SpecOnce == Init /\ [][NextOnce]_vars /\ WF_vars(NextOnce)

-----------------------------------------------------------------------------
(* The cache on its own: cache_set and cache_get called at chosen times *)

Slots == {"courses", "modules", "course_analysis"}

\* the key of the slot exercised in each keyed domain
SlotKey(slot) == IF slot = "modules" THEN 101 ELSE QueryKey(HelpWithMatrices)

ProbeValues == {Str(<<"1">>), Str(<<"2">>)}

\* the times at which the cache is looked at
TimePoints == {1, 1799, 1800, 3599, 3600, 7199, 7200, 7201}

\* cache_get for a slot, at the current time
SlotGet(slot) ==
    IF slot = "courses"
    THEN CacheGetSingle(cache, cache_timestamps, now, slot)
    ELSE CacheGetKeyed(cache, cache_timestamps, now, slot, SlotKey(slot))

pipelineVars == <<pc, runs, in_query, image_path, query, courses,
                  course_analysis, course_name, modules, module_analysis,
                  relevant_modules, module_results, result, task, best, calls,
                  llm, assignments_of>>

\* a call of cache_set
CacheSetCall ==
    /\ \E slot \in Slots, v \in ProbeValues :
        LET st == IF slot = "courses"
                  THEN CacheSetSingle(cache, cache_timestamps, now, slot, v)
                  ELSE CacheSetKeyed(cache, cache_timestamps, now, slot, v,
                                     SlotKey(slot))
        IN  /\ cache' = st.c
            /\ cache_timestamps' = st.ts
            /\ stored' = [stored EXCEPT ![slot] =
                             [tag |-> "set", value |-> v, at |-> now]]
    /\ UNCHANGED <<now, pipelineVars>>

\* the clock moves on to a later time
ClockTick ==
    /\ \E t \in TimePoints : t > now /\ now' = t
    /\ UNCHANGED <<cacheVars, stored, pipelineVars>>

NextCache == CacheSetCall \/ ClockTick

SpecCache == Init /\ [][NextCache]_vars

-----------------------------------------------------------------------------
(* The first stage on its own: one course, every short name and answer *)

MaxNameLen == 3

ProbeChars == {"a", "A", "b"}

RECURSIVE StringsUpTo(_)
StringsUpTo(n) ==
    IF n = 0 THEN {<<>>}
    ELSE LET shorter == StringsUpTo(n - 1)
         IN shorter \cup {Append(w, c) : w \in shorter, c \in ProbeChars}

ProbeNames == StringsUpTo(MaxNameLen)

ProbeResponses == {Text(CourseDict(name)) : name \in ProbeNames}

\* helper_resources after get_courses has fetched and cached a one-course
\* mapping
InitProbe ==
    /\ \E name \in ProbeNames :
        LET m == Courses(<<[name |-> name, id |-> 101]>>)
            st == CacheSetSingle(CacheInit, TimestampsInit, 0, "courses", m)
        IN  /\ courses = m
            /\ cache = st.c
            /\ cache_timestamps = st.ts
    /\ now = 0
    /\ pc = "classify"
    /\ runs = 1
    /\ in_query = Str(HelpWithMatrices)
    /\ image_path = NoneV
    /\ query = Str(HelpWithMatrices)
    /\ course_analysis = NoneV
    /\ course_name = NoneV
    /\ modules = NoneV
    /\ module_analysis = NoneV
    /\ relevant_modules = <<>>
    /\ module_results = <<>>
    /\ result = NoneV
    /\ task = NoTask
    /\ best = NoBest
    /\ stored = NoStored
    /\ calls = <<"fetch_courses">>
    /\ llm = NoLlm
    /\ assignments_of = NoneV

ClassifyProbe == ClassifyWith(ProbeResponses)

NextProbe == ClassifyProbe

SpecProbe == InitProbe /\ [][NextProbe]_vars

-----------------------------------------------------------------------------
(* The second stage on its own: a few module lists, every short answer *)

ModuleList(names) ==
    TaskList([i \in 1..Len(names) |-> [id |-> 10 + i, name |-> names[i]]])

\* the module names of the course, in the order get_modules returns them
CandidateLists ==
    {<<<<"b", "a">>, <<"a", "b">>>>,
     <<<<"A", "b">>, <<"a", "B">>>>,
     <<<<"a", "b">>, <<"a">>>>,
     <<<<"b">>, <<"A">>>>,
     <<<<"b", "b">>, <<"A", "a">>, <<"a", "a", "b">>>>,
     <<<<"a">>, <<"b">>, <<"A">>, <<"a", "b">>>>}

\* an answer that names more modules than the prompt asks for
LongAnswer == <<<<"a">>, <<"b">>, <<"A">>, <<"a", "b">>>>

\* the answers of the collaborator: up to two names, in order, and the long one
ProbeAnswers ==
    {<<>>} \cup {<<x>> : x \in ProbeNames}
           \cup {<<x, y>> : x \in ProbeNames, y \in ProbeNames}
           \cup {LongAnswer}

\* helper_resources after get_modules has fetched and cached the modules of
\* the course the first stage has named
InitSelect ==
    /\ \E names \in CandidateLists, answer \in ProbeAnswers :
        LET m == Courses(BuildCourses(CatalogA, 1, <<>>))
            analysis == CourseDict(Algebra)
            st1 == CacheSetSingle(CacheInit, TimestampsInit, 0, "courses", m)
            st2 == CacheSetKeyed(st1.c, st1.ts, 0, "course_analysis", analysis,
                                 QueryKey(HelpWithMatrices))
            st3 == CacheSetKeyed(st2.c, st2.ts, 0, "modules",
                                 ModuleList(names), IdOf(m.m, Algebra))
        IN  /\ courses = m
            /\ course_analysis = analysis
            /\ modules = ModuleList(names)
            /\ llm = [NoLlm EXCEPT !.modules = Text(NamesDict(answer))]
            /\ cache = st3.c
            /\ cache_timestamps = st3.ts
    /\ now = 0
    /\ pc = "select"
    /\ runs = 1
    /\ in_query = Str(HelpWithMatrices)
    /\ image_path = NoneV
    /\ query = Str(HelpWithMatrices)
    /\ course_name = Str(Algebra)
    /\ module_analysis = NoneV
    /\ relevant_modules = <<>>
    /\ module_results = <<>>
    /\ result = NoneV
    /\ task = NoTask
    /\ best = NoBest
    /\ stored = NoStored
    /\ calls = <<"fetch_courses", "llm_course", "fetch_modules">>
    /\ assignments_of = NoneV

SelectProbe == SelectWith({llm.modules})

NextSelect == SelectProbe

SpecSelect == InitSelect /\ [][NextSelect]_vars

-----------------------------------------------------------------------------
(* process_module on its own: one module, every short ranking *)

SixItems ==
    LET titles == <<"P0", "P1", "P2", "P3", "P4", "P5">>
        urls == <<"p0", "p1", "p2", "p3", "p4", "p5">>
    IN [i \in 1..6 |-> [title |-> titles[i], type |-> "Page", html_url |-> urls[i]]]

\* an item of type File without content_id
LooseFile == [title |-> "Sheet", type |-> "File", html_url |-> "u2"]

ItemLists == {Items, Append(Items, LooseFile), SixItems}

\* resource_indices: up to three indices around the range of the items, and a
\* ranking of six items
IndexChoices == {-3, -1, 0, 1, 2, 3}

ProbeIndices ==
    {<<>>} \cup {<<x>> : x \in IndexChoices}
           \cup {<<x, y>> : x \in IndexChoices, y \in IndexChoices}
           \cup {<<x, y, z>> : x \in {1, 3}, y \in IndexChoices, z \in IndexChoices}
           \cup {<<0, 1, 2, 3, 4, 5>>}

\* relevance_scores: none, fewer than, as many as the indices
ProbeScores ==
    {<<>>, <<Frac(3, 10)>>, <<Frac(3, 10), Frac(4, 5)>>,
     <<Frac(3, 10), Frac(4, 5), Frac(1, 5)>>}

\* json.loads of the reply null
JsonNull == NoneV

ProbeRankings ==
    {Text(RankDict(indices, scores)) : indices \in ProbeIndices,
                                       scores \in ProbeScores}
        \cup {Raise, Text(JsonNull)}

\* process_module after get_module_items has fetched and cached the items of
\* the one selected module
InitRank ==
    /\ \E items \in ItemLists :
        LET m == Courses(BuildCourses(CatalogA, 1, <<>>))
            st1 == CacheSetSingle(CacheInit, TimestampsInit, 0, "courses", m)
            st2 == CacheSetKeyed(st1.c, st1.ts, 0, "course_analysis",
                                 CourseDict(Algebra), QueryKey(HelpWithMatrices))
            st3 == CacheSetKeyed(st2.c, st2.ts, 0, "modules",
                                 ModuleList(<<Matrices>>), IdOf(m.m, Algebra))
            st4 == CacheSetKeyed(st3.c, st3.ts, 0, "module_analysis",
                                 NamesDict(<<Matrices>>),
                                 ModuleKey(m.m, HelpWithMatrices))
            st5 == CacheSetKeyed(st4.c, st4.ts, 0, "module_items",
                                 TaskList(items),
                                 PairKey(IdOf(m.m, Algebra), 11))
        IN  /\ courses = m
            /\ task = [FirstTask EXCEPT !.stage = "rank", !.items = items]
            /\ cache = st5.c
            /\ cache_timestamps = st5.ts
    /\ course_analysis = CourseDict(Algebra)
    /\ modules = ModuleList(<<Matrices>>)
    /\ module_analysis = NamesDict(<<Matrices>>)
    /\ relevant_modules = ModuleList(<<Matrices>>).l
    /\ now = 0
    /\ pc = "task"
    /\ runs = 1
    /\ in_query = Str(HelpWithMatrices)
    /\ image_path = NoneV
    /\ query = Str(HelpWithMatrices)
    /\ course_name = Str(Algebra)
    /\ module_results = <<>>
    /\ result = NoneV
    /\ best = NoBest
    /\ stored = NoStored
    /\ calls = <<"fetch_courses", "llm_course", "fetch_modules", "llm_modules",
                 "fetch_items">>
    /\ llm = NoLlm
    /\ assignments_of = NoneV

TaskRankProbe == TaskRankWith(ProbeRankings)

\* the answers of the file endpoint, one of them with an empty url
ProbeFileResponses == FileResponses \cup {Ok([url |-> ""])}

TaskFileProbe == TaskFileWith(ProbeFileResponses)

NextRank ==
    \/ TaskRankProbe
    \/ TaskFileProbe

SpecRank == InitRank /\ [][NextRank]_vars

-----------------------------------------------------------------------------
(* The course matching of helper_resources on its own: the first stage      *)
(* answers from its cache, filled by an earlier invocation, after the       *)
(* courses have changed                                                      *)

DataLabs == <<"D", "a", "t", "a", " ", "L", "a", "b", "s", " ", "Q", "u",
              "i", "z", " ", "E", "x", "a", "m", " ", "U", "n", "i", "t",
              " ", "W", "e", "e", "k">>

MathTerm == <<"M", "a", "t", "h", " ", "T", "e", "r", "m", " ", "Q", "u",
              "i", "z", " ", "E", "x", "a", "m", " ", "U", "n", "i", "t",
              " ", "W", "e", "e", "k">>

NonlinearSystems == <<"N", "o", "n", "l", "i", "n", "e", "a", "r", " ", "S",
                      "y", "s", "t", "e", "m", "s">>

ArtName == <<"A", "r", "t">>

\* the mappings get_courses returns, in insertion order
FallbackCatalogs ==
    {<<DataLabs, IntroToArt>>,
     <<DataLabs, MathTerm>>,
     <<NonlinearSystems, LinearAlgebra>>,
     <<ArtName, Algebra>>}

FallbackQueries ==
    {<<"d", "a", "t", "a", " ", "m", "a", "t", "h", " ", "t", "e", "r", "m",
       " ", "p", "l", "a", "n", " ", "t", "a", "s", "k", " ", "n", "o", "t",
       "e">>,
     <<"d", "a", "t", "a", " ", "m", "a", "t", "h", " ", "t", "e", "r", "m",
       " ", "p", "l", "a", "n", " ", "t", "a", "s", "k">>,
     <<"a", "l", "g", "e", "b", " ", "n", "o", "t", "e", "s">>,
     <<"l", "i", "n", "e", "a", " ", "n", "o", "t", "e", "s">>,
     <<"a", "r", "t">>,
     HelpWithMatrices}

\* the analyses an earlier invocation has cached for the query
StaleAnalyses ==
    {CourseDict(Bogus), CourseDict(<<"A", "r", "t", "s">>), CourseDict(Algebra),
     NoCourseName}

\* helper_resources after get_courses has fetched the courses anew, an hour
\* after the first stage has cached its analysis of the same query
InitFallback ==
    /\ \E names \in FallbackCatalogs, q \in FallbackQueries,
          analysis \in StaleAnalyses :
        LET m == Courses([i \in 1..Len(names) |->
                             [name |-> names[i], id |-> 100 * i + i]])
            st1 == CacheSetKeyed(CacheInit, TimestampsInit, 0,
                                 "course_analysis", analysis, QueryKey(q))
            st2 == CacheSetSingle(st1.c, st1.ts, CACHE_TTL.courses, "courses", m)
        IN  /\ courses = m
            /\ in_query = Str(q)
            /\ query = Str(q)
            /\ cache = st2.c
            /\ cache_timestamps = st2.ts
    /\ now = CACHE_TTL.courses
    /\ pc = "classify"
    /\ runs = 2
    /\ image_path = NoneV
    /\ course_analysis = NoneV
    /\ course_name = NoneV
    /\ modules = NoneV
    /\ module_analysis = NoneV
    /\ relevant_modules = <<>>
    /\ module_results = <<>>
    /\ result = NoneV
    /\ task = NoTask
    /\ best = NoBest
    /\ stored = NoStored
    /\ calls = <<"fetch_courses">>
    /\ llm = NoLlm
    /\ assignments_of = NoneV

NextFallback == Classify

SpecFallback == InitFallback /\ [][NextFallback]_vars

-----------------------------------------------------------------------------
(* The first stage called twice: queries around the key length, two mappings *)

\* n characters: words of four times the character c, one space between them
Filled(n, c) == [i \in 1..n |-> IF i % 5 = 0 THEN " " ELSE c]

HelpWithMatricesCaps ==
    <<"H","E","L","P"," ","W","I","T","H"," ","M","A","T","R","I","C","E","S">>

\* queries that differ in letter case, after character 100, or at character 100
KeyQueries ==
    {HelpWithMatrices, HelpWithMatricesCaps,
     Filled(KeyLen, "q") \o <<"a">>, Filled(KeyLen, "Q") \o <<"b">>,
     Filled(KeyLen - 1, "q") \o <<"a">>, Filled(KeyLen - 1, "q") \o <<"b">>}

KeyCatalogs == {CatalogA, CatalogB}

\* seconds between the two calls: none, one less than the TTL, the TTL
KeyDelays ==
    {0, CACHE_TTL.course_analysis - 1, CACHE_TTL.course_analysis}

KeyResponses ==
    {Raise, Text(NoCourseName), Text(CourseDict(Algebra)),
     Text(CourseDict(LinearAlgebra)), Text(CourseDict(Bogus))}

\* the first call of analyze_query_with_gemini(query, courses), with nothing
\* in the analysis cache; in_query keeps the query of the first call
InitKey ==
    /\ \E q \in KeyQueries, catalog \in KeyCatalogs :
        LET m == Courses(BuildCourses(catalog, 1, <<>>))
            st == CacheSetSingle(CacheInit, TimestampsInit, 0, "courses", m)
        IN  /\ courses = m
            /\ in_query = Str(q)
            /\ query = Str(q)
            /\ cache = st.c
            /\ cache_timestamps = st.ts
    /\ now = 0
    /\ pc = "classify"
    /\ runs = 1
    /\ image_path = NoneV
    /\ course_analysis = NoneV
    /\ course_name = NoneV
    /\ modules = NoneV
    /\ module_analysis = NoneV
    /\ relevant_modules = <<>>
    /\ module_results = <<>>
    /\ result = NoneV
    /\ task = NoTask
    /\ best = NoBest
    /\ stored = NoStored
    /\ calls = <<>>
    /\ llm = NoLlm
    /\ assignments_of = NoneV

ClassifyKey == ClassifyWith(KeyResponses)

\* the second call, some time later, with a query and a mapping of its own;
\* course_analysis still holds what the first call returned
ClassifyAgain ==
    /\ pc \in {"modules", "done"}
    /\ runs = 1
    /\ runs' = 2
    /\ \E q \in KeyQueries, catalog \in KeyCatalogs, d \in KeyDelays :
        /\ query' = Str(q)
        /\ courses' = Courses(BuildCourses(catalog, 1, <<>>))
        /\ now' = now + d
    /\ pc' = "classify"
    /\ result' = NoneV
    /\ course_name' = NoneV
    /\ UNCHANGED <<cacheVars, argVars, course_analysis, modules,
                   module_analysis, relevant_modules, module_results, task,
                   best, stored, calls, llm, assignments_of>>

NextKey == ClassifyKey \/ ClassifyAgain

SpecKey == InitKey /\ [][NextKey]_vars

-----------------------------------------------------------------------------
(* The second stage called twice: mappings, resolved courses, module lists *)

\* CatalogA with its courses in the other order
CatalogAReversed ==
    <<[name |-> IntroToArt, id |-> 202], [name |-> Algebra, id |-> 101]>>

ModuleKeyCatalogs == {CatalogA, CatalogAReversed, CatalogB}

ModuleKeyQueries ==
    {HelpWithMatrices, HelpWithMatricesCaps,
     Filled(KeyLen, "q") \o <<"a">>, Filled(KeyLen, "Q") \o <<"b">>}

ModuleKeyLists == {ModuleList(<<Matrices, Vectors>>), ModuleList(<<Vectors>>)}

ModuleKeyDelays == {0, CACHE_TTL.module_analysis}

ModuleKeyResponses ==
    {Raise, Text(NoModuleNames), Text(NamesDict(<<Matrices>>)),
     Text(NamesDict(<<Vectors>>))}

\* the arguments of one call of analyze_query_with_gemini(query, courses,
\* course_modules), made by helper_resources for the course course_name
SelectorArguments ==
    {[q |-> q, m |-> BuildCourses(catalog, 1, <<>>), k |-> k, l |-> l] :
        q \in ModuleKeyQueries, catalog \in ModuleKeyCatalogs, k \in 1..2,
        l \in ModuleKeyLists}

\* the first call, with nothing in the analysis cache
InitModuleKey ==
    /\ \E a \in SelectorArguments :
        LET st == CacheSetSingle(CacheInit, TimestampsInit, 0, "courses",
                                 Courses(a.m))
        IN  /\ courses = Courses(a.m)
            /\ course_name = Str(a.m[a.k].name)
            /\ modules = a.l
            /\ in_query = Str(a.q)
            /\ query = Str(a.q)
            /\ cache = st.c
            /\ cache_timestamps = st.ts
    /\ now = 0
    /\ pc = "select"
    /\ runs = 1
    /\ image_path = NoneV
    /\ course_analysis = NoneV
    /\ module_analysis = NoneV
    /\ relevant_modules = <<>>
    /\ module_results = <<>>
    /\ result = NoneV
    /\ task = NoTask
    /\ best = NoBest
    /\ stored = NoStored
    /\ calls = <<>>
    /\ llm = NoLlm
    /\ assignments_of = NoneV

SelectKey == SelectWith(ModuleKeyResponses)

\* the second call, at once or a TTL later, with arguments of its own;
\* module_analysis still holds what the first call returned
SelectAgain ==
    /\ pc \in {"task", "done"}
    /\ runs = 1
    /\ runs' = 2
    /\ \E a \in SelectorArguments, d \in ModuleKeyDelays :
        /\ query' = Str(a.q)
        /\ courses' = Courses(a.m)
        /\ course_name' = Str(a.m[a.k].name)
        /\ modules' = a.l
        /\ now' = now + d
    /\ pc' = "select"
    /\ result' = NoneV
    /\ relevant_modules' = <<>>
    /\ task' = NoTask
    /\ UNCHANGED <<cacheVars, argVars, course_analysis, module_analysis,
                   module_results, best, stored, calls, llm, assignments_of>>

NextModuleKey == SelectKey \/ SelectAgain

SpecModuleKey == InitModuleKey /\ [][NextModuleKey]_vars

-----------------------------------------------------------------------------
(* process_module in two invocations: the module's items change in between *)

\* the module's items after a page has been put in front of them
ChangedItems ==
    <<[title |-> "Syllabus", type |-> "Page", html_url |-> "u9"],
      [title |-> "Notes", type |-> "Page", html_url |-> "u0"],
      [title |-> "Slides", type |-> "File", html_url |-> "u1",
       content_id |-> 7]>>

\* the items endpoint: the first invocation sees Items, the second may see
\* the changed list
StaleItemsResponses ==
    IF runs = 1 THEN {Ok(Items)} ELSE {Failed, Ok(Items), Ok(ChangedItems)}

StaleRankings ==
    {Raise, Text(RankDict(<<0>>, <<Frac(9, 10)>>)),
     Text(RankDict(<<1, 0>>, <<Frac(1, 2)>>)), Text(RankDict(<<2>>, <<>>))}

\* seconds between the invocations: none, the TTL of module_items, the TTL
\* of resource_analysis
StaleDelays == {0, CACHE_TTL.module_items, CACHE_TTL.resource_analysis}

\* helper_resources at the start of process_module for the one selected
\* module, with nothing cached for the module
InitStale ==
    /\ LET m == Courses(BuildCourses(CatalogA, 1, <<>>))
           st1 == CacheSetSingle(CacheInit, TimestampsInit, 0, "courses", m)
           st2 == CacheSetKeyed(st1.c, st1.ts, 0, "course_analysis",
                                CourseDict(Algebra), QueryKey(HelpWithMatrices))
           st3 == CacheSetKeyed(st2.c, st2.ts, 0, "modules",
                                ModuleList(<<Matrices>>), IdOf(m.m, Algebra))
           st4 == CacheSetKeyed(st3.c, st3.ts, 0, "module_analysis",
                                NamesDict(<<Matrices>>),
                                ModuleKey(m.m, HelpWithMatrices))
       IN  /\ courses = m
           /\ cache = st4.c
           /\ cache_timestamps = st4.ts
    /\ task = FirstTask
    /\ course_analysis = CourseDict(Algebra)
    /\ modules = ModuleList(<<Matrices>>)
    /\ module_analysis = NamesDict(<<Matrices>>)
    /\ relevant_modules = ModuleList(<<Matrices>>).l
    /\ now = 0
    /\ pc = "task"
    /\ runs = 1
    /\ in_query = Str(HelpWithMatrices)
    /\ image_path = NoneV
    /\ query = Str(HelpWithMatrices)
    /\ course_name = Str(Algebra)
    /\ module_results = <<>>
    /\ result = NoneV
    /\ best = NoBest
    /\ stored = NoStored
    /\ calls = <<>>
    /\ llm = NoLlm
    /\ assignments_of = NoneV

TaskItemsStale == TaskItemsWith(StaleItemsResponses)

TaskRankStale == TaskRankWith(StaleRankings)

\* the next find_resources call with the same query, some time later, has
\* come to process_module for the same module
ProcessAgain ==
    /\ pc = "done"
    /\ runs = 1
    /\ runs' = 2
    /\ \E d \in StaleDelays : now' = now + d
    /\ pc' = "task"
    /\ task' = FirstTask
    /\ module_results' = <<>>
    /\ result' = NoneV
    /\ calls' = <<>>
    /\ UNCHANGED <<cacheVars, argVars, query, courses, course_analysis,
                   course_name, modules, module_analysis, relevant_modules,
                   best, stored, llm, assignments_of>>

NextStale == TaskItemsStale \/ TaskRankStale \/ TaskFile \/ ProcessAgain

SpecStale == InitStale /\ [][NextStale]_vars

-----------------------------------------------------------------------------
(* gradescope.py: the cache and the functions that fill and clear it.  In
   this part cache holds the cache of gradescope.py, task the call made last
   (with the outcome of its membership test on the cache), calls the requests
   it sent to Gradescope and result the value it returned. *)

GsCourseIds == {<<"1">>, <<"1", "2">>}

GsAssignmentIds == {<<"3">>, <<"2", "3">>}

\* the ids the users and the submissions are asked for
GsOtherCourseIds == {<<"1">>}

GsOtherAssignmentIds == {<<"2", "3">>}

\* f"{course_id}_{assignment_id}"
GsKey(course_id, assignment_id) == course_id \o <<"_">> \o assignment_id

GsCacheInit ==
    [connection |-> NoneV, courses |-> NoneV, assignments |-> <<>>,
     submissions |-> <<>>, users |-> <<>>, extensions |-> <<>>]

Connection == [tag |-> "connection"]

BoolV(b) == [tag |-> "bool", b |-> b]

\* a request to Gradescope that raises
GsRaise == [tag |-> "raise"]

\* the assignments of a course, with a due date
AssignmentsDue(day) ==
    [tag |-> "list", l |-> <<[name |-> "hw1", due_date |-> day]>>]

GsAssignmentsAnswers == {AssignmentsDue(1), AssignmentsDue(2)}

GsExtensionsAnswers == {[tag |-> "dict", keys |-> {"u1"}]}

GsSubmissionsAnswers == {[tag |-> "dict", keys |-> {"s1"}]}

GsUsersAnswers == {[tag |-> "list", l |-> <<[name |-> "u1"]>>]}

GsCoursesAnswers == {[tag |-> "dict", keys |-> {"student"}]}

\* a del that removes nothing
DelNothing(f, key) == f

\* del dict[key]
Del(f, key) == [k \in DOMAIN f \ {key} |-> f[k]]

\* whether GSConnection().login(...) may be reached, and succeed
LoginOutcomes == IF IsNone(cache.connection) THEN BOOLEAN ELSE {TRUE}

\* get_connection: the cache afterwards, the value returned and the request
\* sent
GetConnection(c, login_ok) ==
    IF IsNone(c.connection)
    THEN IF login_ok
         THEN [c |-> [c EXCEPT !.connection = Connection],
               value |-> Connection, calls |-> <<"login">>]
         ELSE [c |-> c, value |-> NoneV, calls |-> <<"login">>]
    ELSE [c |-> c, value |-> c.connection, calls |-> <<>>]

GsCall(fn, course_id, assignment_id, had) ==
    [fn |-> fn, course_id |-> course_id, assignment_id |-> assignment_id,
     had |-> had]

gsFrame ==
    <<cache_timestamps, now, pc, runs, in_query, image_path, query, courses,
      course_analysis, course_name, modules, module_analysis,
      relevant_modules, module_results, best, stored, llm, assignments_of>>

\* the shape of the four getters with a keyed cache: return the entry when
\* the key is in the cache, else connect, ask Gradescope, store and return
GsGet(fn, request, domain, key, course_id, assignment_id, Answers) ==
    /\ task' = GsCall(fn, course_id, assignment_id, key \in DOMAIN cache[domain])
    /\ IF key \in DOMAIN cache[domain]
       THEN /\ result' = cache[domain][key]
            /\ calls' = <<>>
            /\ cache' = cache
       ELSE \E login_ok \in LoginOutcomes :
              LET g == GetConnection(cache, login_ok)
              IN  IF ~Truthy(g.value)
                  THEN /\ result' = NoneV
                       /\ calls' = g.calls
                       /\ cache' = g.c
                  ELSE \E resp \in Answers \cup {GsRaise} :
                         /\ calls' = Append(g.calls, request)
                         /\ IF resp = GsRaise
                            THEN /\ result' = NoneV
                                 /\ cache' = g.c
                            ELSE /\ result' = resp
                                 /\ cache' = [g.c EXCEPT
                                                ![domain] = Put(@, key, resp)]
    /\ UNCHANGED gsFrame

GetAssignmentsForCourse(course_id) ==
    GsGet("get_assignments_for_course", "get_assignments", "assignments",
          course_id, course_id, NoneV, GsAssignmentsAnswers)

GetAssignmentExtensions(course_id, assignment_id) ==
    GsGet("get_assignment_extensions", "get_extensions", "extensions",
          GsKey(course_id, assignment_id), course_id, assignment_id,
          GsExtensionsAnswers)

GetAssignmentSubmissions(course_id, assignment_id) ==
    GsGet("get_assignment_submissions", "get_assignment_submissions",
          "submissions", GsKey(course_id, assignment_id), course_id,
          assignment_id, GsSubmissionsAnswers)

GetCourseUsers(course_id) ==
    GsGet("get_course_users", "get_course_users", "users", course_id,
          course_id, NoneV, GsUsersAnswers)

\* _get_gradescope_courses
GetGradescopeCourses ==
    /\ task' = GsCall("_get_gradescope_courses", NoneV, NoneV,
                      ~IsNone(cache.courses))
    /\ IF ~IsNone(cache.courses)
       THEN /\ result' = cache.courses
            /\ calls' = <<>>
            /\ cache' = cache
       ELSE \E login_ok \in LoginOutcomes :
              LET g == GetConnection(cache, login_ok)
              IN  IF ~Truthy(g.value)
                  THEN /\ result' = NoneV
                       /\ calls' = g.calls
                       /\ cache' = g.c
                  ELSE \E resp \in GsCoursesAnswers \cup {GsRaise} :
                         /\ calls' = Append(g.calls, "get_courses")
                         /\ IF resp = GsRaise
                            THEN /\ result' = NoneV
                                 /\ cache' = g.c
                            ELSE /\ result' = resp
                                 /\ cache' = [g.c EXCEPT !.courses = resp]
    /\ UNCHANGED gsFrame

\* the shape of the two updates: connect, send the update, delete the cache
\* entry of the key and return what Gradescope answered; the dates sent have
\* no part in what happens to the cache
GsUpdate(fn, request, domain, key, course_id, assignment_id) ==
    /\ task' = GsCall(fn, course_id, assignment_id, key \in DOMAIN cache[domain])
    /\ \E login_ok \in LoginOutcomes :
          LET g == GetConnection(cache, login_ok)
          IN  IF ~Truthy(g.value)
              THEN /\ result' = BoolV(FALSE)
                   /\ calls' = g.calls
                   /\ cache' = g.c
              ELSE \E success \in {BoolV(TRUE), BoolV(FALSE), GsRaise} :
                     /\ calls' = Append(g.calls, request)
                     /\ IF success = GsRaise
                        THEN /\ result' = BoolV(FALSE)
                             /\ cache' = g.c
                        ELSE /\ result' = success
                             /\ cache' = IF key \in DOMAIN cache[domain]
                                         THEN [g.c EXCEPT ![domain] = Del(@, key)]
                                         ELSE g.c
    /\ UNCHANGED gsFrame

UpdateStudentExtension(course_id, assignment_id) ==
    GsUpdate("update_student_extension", "update_student_extension",
             "extensions", GsKey(course_id, assignment_id), course_id,
             assignment_id)

UpdateAssignmentDates(course_id, assignment_id) ==
    GsUpdate("update_assignment_dates", "update_assignment_date",
             "assignments", course_id, course_id, assignment_id)

\* gradescope.py after import
InitGradescope ==
    /\ cache = GsCacheInit
    /\ cache_timestamps = TimestampsInit
    /\ task = GsCall("import", NoneV, NoneV, FALSE)
    /\ result = NoneV
    /\ calls = <<>>
    /\ now = 0
    /\ pc = "ready"
    /\ runs = 0
    /\ in_query = NoneV
    /\ image_path = NoneV
    /\ query = NoneV
    /\ courses = NoneV
    /\ course_analysis = NoneV
    /\ course_name = NoneV
    /\ modules = NoneV
    /\ module_analysis = NoneV
    /\ relevant_modules = <<>>
    /\ module_results = <<>>
    /\ best = NoBest
    /\ stored = NoStored
    /\ llm = NoLlm
    /\ assignments_of = NoneV

NextGradescope ==
    \/ GetGradescopeCourses
    \/ \E c \in GsCourseIds : GetAssignmentsForCourse(c)
    \/ \E c \in GsOtherCourseIds : GetCourseUsers(c)
    \/ \E c \in GsCourseIds, a \in GsAssignmentIds :
          GetAssignmentExtensions(c, a)
    \/ \E c \in GsOtherCourseIds, a \in GsOtherAssignmentIds :
          GetAssignmentSubmissions(c, a)
    \/ \E c \in GsCourseIds, a \in GsAssignmentIds :
          UpdateStudentExtension(c, a)
    \/ \E c \in GsCourseIds, a \in GsAssignmentIds :
          UpdateAssignmentDates(c, a)

SpecGradescope == InitGradescope /\ [][NextGradescope]_vars

-----------------------------------------------------------------------------
(* The fan-out: asyncio.gather over process_module, one task per module.
   Here task is the sequence of the tasks, module_results the list gather
   builds, and llm holds the collaborators' answers, fixed per request. *)

\* one call site: cache_get, on a miss the collaborator (fresh is what the
\* operation makes of its answer) and cache_set, on the cache c, ts
Through(cache_type, key, fresh, c, ts) ==
    LET cached == CacheGetKeyed(c, ts, now, cache_type, key)
    IN  IF Truthy(cached)
        THEN [value |-> cached, c |-> c, ts |-> ts, miss |-> FALSE]
        ELSE LET st == IF fresh.store
                       THEN CacheSetKeyed(c, ts, now, cache_type, fresh.value, key)
                       ELSE [c |-> c, ts |-> ts]
             IN [value |-> fresh.value, c |-> st.c, ts |-> st.ts, miss |-> TRUE]

\* process_module from the ranking to the resource loop: the list returned
\* at once, the exception raised, or the resources built
AfterRank(resource_analysis, items, mname) ==
    IF ~Truthy(resource_analysis) THEN TaskList(<<>>)
    ELSE IF resource_analysis.tag # "dict" THEN TaskRaised
    ELSE IF Len(GetIndices(resource_analysis)) = 0 THEN TaskList(<<>>)
    ELSE IF IndexRaises(items, GetIndices(resource_analysis)) THEN TaskRaised
    ELSE [tag |-> "building",
          l |-> BuildResources(items, GetIndices(resource_analysis),
                               GetScores(resource_analysis), course_name.s,
                               mname, 1)]

\* get_module_items of task i on the cache c, ts
ItemsThrough(i, c, ts) ==
    Through("module_items", PairKey(CourseId, relevant_modules[i].id),
            FetchList(llm.items[i]), c, ts)

\* analyze_resource_relevance of task i on the cache c, ts
RankThrough(i, c, ts) ==
    Through("resource_analysis",
            ResourceKey(course_name.s, relevant_modules[i].name, query.s),
            RankFresh(llm.rank[i]), c, ts)

\* get_file_url for the resource r on the cache c, ts
FileThrough(r, c, ts) ==
    Through("file_urls", PairKey(CourseId, r.item.content_id),
            FetchFileUrl(llm.file[r.item.content_id]), c, ts)

\* resource["url"] = file_url, if file_url
WithUrl(resources, k, file_url) ==
    IF Truthy(file_url) THEN [resources EXCEPT ![k].url = file_url.s]
    ELSE resources

\* the position of a task's result in the list gather returns: the position
\* of its awaitable, whenever it completes
GatherSlotByCompletion(i, order) == order

GatherSlot(i, order) == i

SiblingItems == <<[title |-> "Slides", type |-> "File", html_url |-> "u1",
                   content_id |-> 7],
                  [title |-> "Quiz", type |-> "Quiz", html_url |-> "u3"]>>

\* the answers to the requests of the fan-out: items and ranking per module,
\* the file endpoint per file id
FanAnswers ==
    {[course |-> NoCall, modules |-> NoCall, caption |-> NoneV,
      items |-> <<i1, Ok(SiblingItems)>>, rank |-> <<r1, r2>>,
      file |-> [id \in {7} |-> f]] :
        i1 \in {Failed, Ok(Items)},
        r1 \in {Raise, Text(JsonArray), Text(RankDict(<<1, 0>>, <<Frac(1, 2)>>))},
        r2 \in {Text(RankDict(<<0>>, <<>>)),
                Text(RankDict(<<1, 0>>, <<Frac(1, 2), Frac(1, 2)>>))},
        f \in FileResponses}

\* the cache when the fan-out starts
FanCache ==
    LET m == Courses(BuildCourses(CatalogA, 1, <<>>))
        st1 == CacheSetSingle(CacheInit, TimestampsInit, 0, "courses", m)
        st2 == CacheSetKeyed(st1.c, st1.ts, 0, "course_analysis",
                             CourseDict(Algebra), QueryKey(HelpWithMatrices))
        st3 == CacheSetKeyed(st2.c, st2.ts, 0, "modules", TaskList(Mods),
                             IdOf(m.m, Algebra))
    IN  CacheSetKeyed(st3.c, st3.ts, 0, "module_analysis",
                      NamesDict(<<Matrices, Vectors>>),
                      ModuleKey(m.m, HelpWithMatrices))

\* process_module(course_id, relevant_modules[i], query, course_name) as it
\* starts; order is its place in the order of completion, 0 while it runs
FanTask(i) == [i |-> i, stage |-> "items", items |-> <<>>, resources |-> <<>>,
               k |-> 0, order |-> 0]

\* helper_resources at "await asyncio.gather(*module_tasks)"
InitFan ==
    /\ llm \in FanAnswers
    /\ cache = FanCache.c
    /\ cache_timestamps = FanCache.ts
    /\ courses = Courses(BuildCourses(CatalogA, 1, <<>>))
    /\ course_analysis = CourseDict(Algebra)
    /\ course_name = Str(Algebra)
    /\ modules = TaskList(Mods)
    /\ module_analysis = NamesDict(<<Matrices, Vectors>>)
    /\ relevant_modules = Mods
    /\ task = [i \in 1..Len(Mods) |-> FanTask(i)]
    /\ module_results = [i \in 1..Len(Mods) |-> NoneV]
    /\ now = 0
    /\ pc = "task"
    /\ runs = 1
    /\ in_query = Str(HelpWithMatrices)
    /\ image_path = NoneV
    /\ query = Str(HelpWithMatrices)
    /\ result = NoneV
    /\ best = NoBest
    /\ stored = NoStored
    /\ calls = <<"fetch_courses", "llm_course", "fetch_modules", "llm_modules">>
    /\ assignments_of = NoneV

fanFrame == <<now, argVars, runs, query, courses, course_analysis, course_name,
              modules, module_analysis, relevant_modules, best, stored, llm,
              assignments_of, pc, result>>

\* task i returns outcome: gather keeps it at the task's position
FanReturn(i, outcome) ==
    LET order == 1 + Cardinality({j \in 1..Len(task) : task[j].stage = "ended"})
    IN  /\ task' = [task EXCEPT ![i].stage = "ended", ![i].order = order]
        /\ module_results' =
               [module_results EXCEPT ![GatherSlot(i, order)] = outcome]

\* task i goes on to the file-URL loop from position k, or returns
FanContinue(i, resources, k) ==
    IF NextFile(resources, k) = 0
    THEN FanReturn(i, TaskList(Popped(resources)))
    ELSE /\ task' = [task EXCEPT ![i].stage = "files",
                                 ![i].resources = resources,
                                 ![i].k = NextFile(resources, k)]
         /\ UNCHANGED module_results

\* task i: await get_module_items
FanItems(i) ==
    /\ pc = "task"
    /\ task[i].stage = "items"
    /\ LET r == ItemsThrough(i, cache, cache_timestamps)
       IN  /\ cache' = r.c
           /\ cache_timestamps' = r.ts
           /\ calls' = IF r.miss THEN Append(calls, "fetch_items") ELSE calls
           /\ IF ~Truthy(r.value)
              THEN FanReturn(i, TaskList(<<>>))
              ELSE /\ task' = [task EXCEPT ![i].stage = "rank",
                                           ![i].items = r.value.l]
                   /\ UNCHANGED module_results
    /\ UNCHANGED fanFrame

\* task i: analyze_resource_relevance and the resource loop
FanRank(i) ==
    /\ pc = "task"
    /\ task[i].stage = "rank"
    /\ LET r == RankThrough(i, cache, cache_timestamps)
           built == AfterRank(r.value, task[i].items, relevant_modules[i].name)
       IN  /\ cache' = r.c
           /\ cache_timestamps' = r.ts
           /\ calls' = IF r.miss THEN Append(calls, "llm_rank") ELSE calls
           /\ IF built.tag = "building"
              THEN FanContinue(i, built.l, 1)
              ELSE FanReturn(i, built)
    /\ UNCHANGED fanFrame

\* task i: await get_file_url for the resource at its position k
FanFile(i) ==
    /\ pc = "task"
    /\ task[i].stage = "files"
    /\ LET r == FileThrough(task[i].resources[task[i].k], cache,
                            cache_timestamps)
       IN  /\ cache' = r.c
           /\ cache_timestamps' = r.ts
           /\ calls' = IF r.miss THEN Append(calls, "fetch_file") ELSE calls
           /\ FanContinue(i, WithUrl(task[i].resources, task[i].k, r.value),
                          task[i].k + 1)
    /\ UNCHANGED fanFrame

\* gather returns when every task has returned; helper_resources aggregates
FanJoin ==
    /\ pc = "task"
    /\ \A i \in 1..Len(task) : task[i].stage = "ended"
    /\ Finish(Aggregate(module_results))
    /\ UNCHANGED <<cacheVars, now, argVars, runs, query, courses,
                   course_analysis, course_name, modules, module_analysis,
                   relevant_modules, module_results, task, best, stored,
                   calls, llm, assignments_of>>

\* the event loop resumes any task that has not returned
NextFan ==
    \/ \E i \in 1..Len(task) : FanItems(i)
    \/ \E i \in 1..Len(task) : FanRank(i)
    \/ \E i \in 1..Len(task) : FanFile(i)
    \/ FanJoin

SpecFan == InitFan /\ [][NextFan]_vars

\* the file-URL loop of one task run to its end on the cache c, ts
RECURSIVE RunFiles(_, _, _, _)
RunFiles(resources, k, c, ts) ==
    IF k = 0 THEN [l |-> resources, c |-> c, ts |-> ts]
    ELSE LET r == FileThrough(resources[k], c, ts)
             next == WithUrl(resources, k, r.value)
         IN RunFiles(next, NextFile(next, k + 1), r.c, r.ts)

\* task i run from its start to its return without another task in between
RunTask(i, c, ts) ==
    LET it == ItemsThrough(i, c, ts)
    IN  IF ~Truthy(it.value)
        THEN [outcome |-> TaskList(<<>>), c |-> it.c, ts |-> it.ts]
        ELSE LET rk == RankThrough(i, it.c, it.ts)
                 built == AfterRank(rk.value, it.value.l,
                                    relevant_modules[i].name)
             IN IF built.tag # "building"
                THEN [outcome |-> built, c |-> rk.c, ts |-> rk.ts]
                ELSE LET fl == RunFiles(built.l, NextFile(built.l, 1),
                                        rk.c, rk.ts)
                     IN [outcome |-> TaskList(Popped(fl.l)),
                         c |-> fl.c, ts |-> fl.ts]

\* the results of the tasks i, i + 1, ... run one after the other
RECURSIVE RunInOrder(_, _, _)
RunInOrder(i, c, ts) ==
    IF i > Len(relevant_modules) THEN <<>>
    ELSE LET t == RunTask(i, c, ts)
         IN <<t.outcome>> \o RunInOrder(i + 1, t.c, t.ts)

-----------------------------------------------------------------------------
(* get_assignments_by_course_name and get_course_assignments *)

IntV(n) == [tag |-> "int", n |-> n]

\* the keys get_course_assignments reads from every assignment
AssignmentKeys == {"id", "description", "due_at", "has_submitted_submissions",
                   "name"}

Homework == [id |-> 31, description |-> "d1", due_at |-> "t1",
             has_submitted_submissions |-> TRUE, name |-> "Homework",
             points_possible |-> 10]

Untitled == [id |-> 32, description |-> "d2", due_at |-> "t2",
             has_submitted_submissions |-> FALSE]

AssignmentResponses ==
    {Failed, Ok(<<>>), Ok(<<Homework>>), Ok(<<Homework, Untitled>>)}

\* get_course_assignments: None for a status other than 200 and for an
\* assignment without one of the keys (KeyError, caught), else the list of the
\* assignments cut down to the five keys; nothing is cached
FetchAssignments(resp) ==
    IF resp.kind # "ok" THEN NoneV
    ELSE IF \E i \in 1..Len(resp.body) : ~(AssignmentKeys \subseteq DOMAIN resp.body[i])
    THEN NoneV
    ELSE TaskList([i \in 1..Len(resp.body) |->
                      [k \in AssignmentKeys |-> resp.body[i][k]]])

\* the loop over courses.items(): the entries whose name contains course_name
NameMatches(m, name) == {i \in 1..Len(m) : Contains(m[i].name, name)}

\* the first of them, at which the loop breaks
FirstMatch(m, name) ==
    CHOOSE i \in NameMatches(m, name) : \A j \in NameMatches(m, name) : i <= j

CourseNameArgs == {Algebra, algebraLower, LinearAlgebra, IntroToArt, Bogus,
                   <<"A">>, <<>>}

\* get_assignments_by_course_name(course_name), from call to return
GetAssignmentsByCourseName ==
    /\ pc = "idle"
    /\ runs < MaxRuns
    /\ runs' = runs + 1
    /\ \E name \in CourseNameArgs :
        LET cached == CacheGetSingle(cache, cache_timestamps, now, "courses")
        IN \E resp \in IF Truthy(cached) THEN {Failed} ELSE CourseResponses :
            LET f == IF Truthy(cached) THEN Hit(cached) ELSE FetchCourses(resp)
                st == StoredSingle(f, "courses")
                fetched == IF Truthy(cached) THEN <<>> ELSE <<"fetch_courses">>
                found == Truthy(f.value) /\ NameMatches(f.value.m, name) # {}
            IN  /\ cache' = st.c
                /\ cache_timestamps' = st.ts
                /\ courses' = f.value
                /\ course_name' = Str(name)
                /\ IF found
                   THEN \E asg \in AssignmentResponses :
                        /\ assignments_of' =
                               IntV(f.value.m[FirstMatch(f.value.m, name)].id)
                        /\ calls' = calls \o fetched \o <<"fetch_assignments">>
                        /\ result' = FetchAssignments(asg)
                   ELSE /\ assignments_of' = NoneV
                        /\ calls' = calls \o fetched
                        /\ result' = NoneV
    /\ pc' = "done"
    /\ UNCHANGED <<now, argVars, query, course_analysis, modules,
                   module_analysis, relevant_modules, module_results, task, best,
                   stored, llm>>

NextAssign ==
    \/ GetAssignmentsByCourseName
    \/ Return

SpecAssign == Init /\ [][NextAssign]_vars

-----------------------------------------------------------------------------
(* Properties *)

Returned == pc = "done"

ReturnedList == pc = "done" /\ result.tag = "list"

FracEq(a, b) == a.n * b.d = b.n * a.d

\* C1: whatever the collaborators answer, find_resources returns a non-empty
\* list of resources or an error object with an "error" field; it returns
\* neither an exception, nor None, nor an empty list.
C1_ListOrError ==
    Returned =>
        \/ result.tag = "list" /\ Len(result.l) > 0
        \/ result.tag = "error" /\ Len(result.error) > 0

\* C1 witness: a process_module task raised and find_resources returned the
\* error object of its exception handler.
C1_Witness ==
    /\ Returned
    /\ \E i \in 1..Len(module_results) : module_results[i].tag = "raise"
    /\ result = InternalError

\* C2: every resource returned names a course that is a key of the course
\* mapping of this invocation and a module of the module list fetched for it.
C2_VerifiedNames ==
    ReturnedList =>
        \A i \in 1..Len(result.l) :
            /\ HasName(courses.m, result.l[i].course)
            /\ \E j \in 1..Len(modules.l) :
                   modules.l[j].name = result.l[i].module

\* C2 witness: resources of two selected modules are returned after the
\* classifier's course name had to be corrected to a key of the mapping.
C2_Witness ==
    /\ ReturnedList
    /\ course_analysis.fixed
    /\ llm.course.payload.tag = "dict"
    /\ ~HasName(courses.m, llm.course.payload.course_name)
    /\ Len(relevant_modules) = 2

RECURSIVE WithScore(_, _, _)
WithScore(l, score, i) ==
    IF i > Len(l) THEN <<>>
    ELSE (IF FracEq(l[i].relevance_score, score) THEN <<l[i]>> ELSE <<>>)
         \o WithScore(l, score, i + 1)

\* the titles a ranking gives for an item list: the in-range indices, in the
\* order of resource_indices
RECURSIVE ChosenTitles(_, _, _)
ChosenTitles(items, indices, k) ==
    IF k > Len(indices) THEN <<>>
    ELSE (IF indices[k] >= 0 /\ indices[k] < Len(items)
          THEN <<items[indices[k] + 1].title>> ELSE <<>>)
         \o ChosenTitles(items, indices, k + 1)

\* the ranking and the items a task of this invocation worked with
TaskAnalysis(t) ==
    cache.resource_analysis[ResourceKey(course_name.s, relevant_modules[t].name,
                                        query.s)]

TaskItemList(t) ==
    cache.module_items[PairKey(CourseId, relevant_modules[t].id)].l

\* C3: the list returned is sorted by relevance_score, descending, and
\* resources of equal score keep the order of the concatenation of the
\* per-module lists: selected-module order, ranker-index order within a module.
C3_SortedStable ==
    ReturnedList =>
        LET l == result.l
            all == Concat(module_results, 1)
        IN  /\ \A i, j \in 1..Len(l) :
                   i < j => ~FracGt(l[j].relevance_score, l[i].relevance_score)
            /\ Len(l) = Len(all)
            /\ \A i \in 1..Len(all) :
                   WithScore(l, all[i].relevance_score, 1)
                       = WithScore(all, all[i].relevance_score, 1)
            /\ Len(module_results) = Len(relevant_modules)
            /\ \A t \in 1..Len(module_results) :
                   LET r == module_results[t].l
                   IN  /\ \A k \in 1..Len(r) :
                              r[k].module = relevant_modules[t].name
                       /\ Len(r) > 0 =>
                              [k \in 1..Len(r) |-> r[k].title]
                                  = ChosenTitles(TaskItemList(t),
                                        TaskAnalysis(t).resource_indices, 1)

\* C3 witness: the sort moved resources, and two resources of different
\* modules have the same score.
C3_Witness ==
    /\ ReturnedList
    /\ result.l # Concat(module_results, 1)
    /\ \E i, j \in 1..Len(result.l) :
           /\ i < j
           /\ result.l[i].module # result.l[j].module
           /\ FracEq(result.l[i].relevance_score, result.l[j].relevance_score)

\* C4: every resource returned has a relevance_score in [0, 1], whatever the
\* ranker answered.
C4_ScoresInUnitInterval ==
    ReturnedList =>
        \A i \in 1..Len(result.l) :
            /\ result.l[i].relevance_score.n >= 0
            /\ result.l[i].relevance_score.n <= result.l[i].relevance_score.d

\* what cache_get is to return for a slot: the value of the last cache_set,
\* while less than the TTL of the domain has passed since
Expected(slot) ==
    IF stored[slot].tag = "set" /\ now < stored[slot].at + CACHE_TTL[slot]
    THEN stored[slot].value
    ELSE NoneV

\* C5: a value stored by cache_set at time t0 and not overwritten is returned
\* by cache_get at every time before t0 + TTL and is absent from t0 + TTL on;
\* a domain or key never set is absent.
C5_CacheTtl ==
    /\ \A slot \in Slots : SlotGet(slot) = Expected(slot)
    /\ IsNone(CacheGetKeyed(cache, cache_timestamps, now, "modules", 202))
    /\ IsNone(CacheGetKeyed(cache, cache_timestamps, now, "file_urls",
                            PairKey(101, 7)))

\* C5 witness: exactly the TTL after a cache_set the entry is still in the
\* dictionary and cache_get returns absent, while a later entry of another
\* domain is returned.
C5_Witness ==
    \E slot, other \in Slots :
        /\ stored[slot].tag = "set"
        /\ now = stored[slot].at + CACHE_TTL[slot]
        /\ stored[slot].at > 0
        /\ IsNone(SlotGet(slot))
        /\ stored[other].tag = "set"
        /\ SlotGet(other) = stored[other].value

NoInput(q, img) == ~Truthy(q) /\ (~Truthy(img) \/ ~img.exists)

\* C6: called with no query and no image_path, or with no query and an
\* image_path that does not exist, find_resources returns an error object at
\* once, with no collaborator call and no change of the cache.
C6_InputRejected ==
    [][(pc = "idle" /\ pc' # "idle" /\ NoInput(in_query', image_path')) =>
          /\ pc' = "done"
          /\ result'.tag = "error"
          /\ result'.details = "input"
          /\ calls' = <<>>
          /\ cache' = cache
          /\ cache_timestamps' = cache_timestamps]_vars

\* C6 witness: the call with a missing image and no query was rejected while
\* the cache held entries.
C6_Witness ==
    /\ Returned
    /\ IsNone(in_query)
    /\ Truthy(image_path)
    /\ result.details = "input"
    /\ ~IsNone(cache.courses)

\* the resources of the tasks that returned a list, in task order
RECURSIVE SiblingResources(_, _)
SiblingResources(results, i) ==
    IF i > Len(results) THEN <<>>
    ELSE (IF results[i].tag = "list" THEN results[i].l ELSE <<>>)
         \o SiblingResources(results, i + 1)

\* C7: when the processing of one selected module fails in any way while
\* sibling modules succeed, the failing module contributes nothing and
\* find_resources returns the siblings' resources, sorted, and no error.
C7_FailureIsolated ==
    ( /\ Returned
      /\ \E i \in 1..Len(module_results) :
            module_results[i].tag = "raise" \/ Len(module_results[i].l) = 0
      /\ \E j \in 1..Len(module_results) :
            module_results[j].tag = "list" /\ Len(module_results[j].l) > 0 )
    => /\ result.tag = "list"
       /\ result.l = SortDesc(SiblingResources(module_results, 1), 1, <<>>)

CourseNames(m) == [i \in 1..Len(m) |-> m[i].name]

\* the classifier was asked about the mapping of scenario A and answered
\* "Lin Algebra"
ScenarioA ==
    /\ llm.course.kind = "text"
    /\ llm.course.payload.tag = "dict"
    /\ "course_name" \in llm.course.payload.keys
    /\ llm.course.payload.course_name = LinAlgebra
    /\ CourseNames(courses.m) = <<LinearAlgebra, IntroToArt>>

\* C8 as stated: in scenario A the positional matcher scores "Lin Algebra"
\* above 0.5 against "Linear Algebra" and the classifier returns the course
\* name corrected to "Linear Algebra".
C8_ScenarioACorrected ==
    ScenarioA =>
        /\ AboveHalf(best.score)
        /\ course_analysis.tag = "dict"
        /\ course_analysis.course_name = LinearAlgebra

\* C8 amended: in scenario A the best positional score is 4/14, that of
\* "Linear Algebra", which is not above 0.5; the classifier returns absent,
\* caches nothing and find_resources returns "Failed to analyze query".
C8_ScenarioARejected ==
    ScenarioA =>
        /\ best.match = Str(LinearAlgebra)
        /\ best.score = [n |-> 4, d |-> 14]
        /\ IsNone(course_analysis)
        /\ IsNone(CacheGetKeyed(cache, cache_timestamps, now,
                                "course_analysis", QueryKey(query.s)))
        /\ Returned
        /\ result = Err("Failed to analyze query", "course")

\* C8 witness: scenario A has happened.
C8_Witness == ScenarioA /\ Returned

\* the course matching of helper_resources was entered with a name cname
FallbackEntered ==
    /\ pc \in {"modules", "select", "task", "done"}
    /\ course_analysis.tag = "dict"
    /\ "course_name" \in course_analysis.keys
    /\ ~HasName(courses.m, course_analysis.course_name)

\* of the three rules only the substring rule matches a course
OnlySubstringRule(q, cname, m) ==
    /\ \A i \in 1..Len(m) : WordSet(q) \cap WordSet(m[i].name) = {}
    /\ \A i \in 1..Len(m) : ~KeywordHit(q, m[i].name)
    /\ \E i \in 1..Len(m) : SubstringMatch(cname, m[i].name)

FirstSubstringCourse(cname, m) ==
    m[CHOOSE i \in 1..Len(m) :
          /\ SubstringMatch(cname, m[i].name)
          /\ \A j \in 1..(i - 1) : ~SubstringMatch(cname, m[j].name)].name

\* C9: in the course matching the word-overlap rule is tried first, then the
\* substring rule, then the keyword scan; when only the substring rule matches
\* a course, the course resolved is the first substring match, and neither a
\* keyword hit nor the "No relevant course found" error.
C9_SubstringWinner ==
    ( /\ FallbackEntered
      /\ OnlySubstringRule(query.s, course_analysis.course_name, courses.m) )
    => /\ course_name.tag = "str"
       /\ course_name.s = FirstSubstringCourse(course_analysis.course_name,
                                               courses.m)
       /\ ~(Returned /\ result.tag = "error"
                     /\ result.error = "No relevant course found")

\* the aligned positions at which two strings agree, counted from position i
RECURSIVE AlignedEqual(_, _, _)
AlignedEqual(a, b, i) ==
    IF i > Len(a) \/ i > Len(b) THEN 0
    ELSE (IF a[i] = b[i] THEN 1 ELSE 0) + AlignedEqual(a, b, i + 1)

\* the one course name and the answer of the collaborator, after the first
\* stage has run on them
ProbeName == courses.m[1].name

ProbeAnswer == llm.course.payload.course_name

Probed == pc # "classify" /\ ProbeName # ProbeAnswer

\* C10: the score of a candidate name A for the answer B is the number of
\* aligned positions at which the case-folded strings agree, divided by
\* max(len A, len B): 1.0 for strings equal after case-folding, 0.0 for
\* strings that differ at every aligned position.
C10_PositionalScore ==
    Probed =>
        LET a == Lower(ProbeName)
            b == Lower(ProbeAnswer)
        IN  /\ best.score.n * Max(Len(a), Len(b))
                   = AlignedEqual(a, b, 1) * best.score.d
            /\ a = b => best.score.n = best.score.d
            /\ (\A i \in 1..Min(Len(a), Len(b)) : a[i] # b[i])
                   => best.score.n = 0

\* C10 witness: two names of different lengths that agree at some aligned
\* positions only after case-folding.
C10_Witness ==
    /\ Probed
    /\ Len(ProbeName) # Len(ProbeAnswer)
    /\ best.score.n > 0
    /\ best.score.n < best.score.d
    /\ \E i \in 1..Min(Len(ProbeName), Len(ProbeAnswer)) :
           /\ ProbeName[i] # ProbeAnswer[i]
           /\ LowerChar(ProbeName[i]) = LowerChar(ProbeAnswer[i])

\* the text-completion collaborator answered the classifier with text that is
\* not JSON, or with a JSON object that has no course_name
MalformedCourseAnswer ==
    /\ llm.course.kind = "text"
    /\ \/ ParseResponse(llm.course).tag = "notjson"
       \/ /\ ParseResponse(llm.course).tag = "dict"
          /\ "course_name" \notin ParseResponse(llm.course).keys

HasKey(v, key) == v.tag = "dict" /\ key \in v.keys

\* C11: an LLM stage whose response text is not JSON, or is JSON without the
\* key of the stage (course_name, module_names, resource_indices), returns
\* absent as for a collaborator failure: a malformed classifier answer leaves
\* course_analysis absent, and no stage hands on or caches a result that lacks
\* its key.
C11_MalformedIsAbsent ==
    /\ MalformedCourseAnswer => IsNone(course_analysis)
    /\ ~IsNone(course_analysis) => HasKey(course_analysis, "course_name")
    /\ ~IsNone(module_analysis) => HasKey(module_analysis, "module_names")
    /\ \A key \in DOMAIN cache.resource_analysis :
           HasKey(cache.resource_analysis[key], "resource_indices")

\* C12: every non-absent result the classifier hands to helper_resources has a
\* course_name that is a key of the courses of that call, and every non-absent
\* result of the module selector has only names of the modules of that call,
\* also when the result comes from the analysis caches.
C12_ValidatedResults ==
    /\ HasKey(course_analysis, "course_name") =>
           HasName(courses.m, course_analysis.course_name)
    /\ HasKey(module_analysis, "module_names") =>
           \A i \in 1..Len(module_analysis.module_names) :
               InSeq(module_analysis.module_names[i], ModuleNames(modules.l))

\* the stage of the pipeline a collaborator call belongs to
StageRank(call) ==
    CASE call = "vision" -> 1
      [] call = "fetch_courses" -> 2
      [] call = "llm_course" -> 3
      [] call = "fetch_modules" -> 4
      [] call = "llm_modules" -> 5
      [] call \in {"fetch_items", "llm_rank", "fetch_file"} -> 6

\* the last stage whose collaborators may have been called when find_resources
\* returns the result r
StageOfResult(r) ==
    IF r.tag # "error" THEN 6
    ELSE CASE r.details = "input" -> 0
           [] r.error = "No courses found" -> 2
           [] r.error = "Failed to analyze query" /\ r.details = "course" -> 3
           [] r.error = "No relevant course found" -> 3
           [] r.error = "No modules found" -> 4
           [] r.error = "Failed to analyze query" /\ r.details = "modules" -> 5
           [] r.error = "No relevant modules found" -> 5
           [] OTHER -> 6

\* the last stage whose collaborators may have been called at a position
StageReached ==
    CASE pc \in {"idle", "image"} -> 0
      [] pc = "courses" -> 1
      [] pc = "classify" -> 2
      [] pc = "modules" -> 3
      [] pc = "select" -> 4
      [] pc = "task" -> 6
      [] pc = "done" -> StageOfResult(result)

Called(call) == \E i \in 1..Len(calls) : calls[i] = call

\* C13: the collaborators are called in the order of the stages (image
\* analysis, fetch courses, classify, fetch modules, select modules, the
\* per-module item fetch, ranking and file fetch), fetch_modules only for a
\* course name that is a key of the fetched mapping, the selector only after a
\* non-empty module list, item fetches and ranker calls only for selected
\* modules of that list and the ranker only after the module's items, and a
\* stage that returns its error is followed by no call of a later stage.
C13_PipelineOrder ==
    /\ \A i, j \in 1..Len(calls) :
           i < j => /\ StageRank(calls[i]) <= StageRank(calls[j])
                    /\ StageRank(calls[i]) < 6 =>
                           StageRank(calls[i]) < StageRank(calls[j])
    /\ \A i \in 1..Len(calls) : StageRank(calls[i]) <= StageReached
    /\ (pc \in {"modules", "select", "task"} \/ Called("fetch_modules")) =>
           /\ course_name.tag = "str"
           /\ HasName(courses.m, course_name.s)
    /\ (pc \in {"select", "task"} \/ Called("llm_modules")) =>
           /\ modules.tag = "list"
           /\ Len(modules.l) > 0
    /\ (pc = "task" \/ Called("fetch_items") \/ Called("llm_rank")) =>
           /\ Len(relevant_modules) > 0
           /\ \A t \in 1..Len(relevant_modules) :
                  InSeq(relevant_modules[t], modules.l)
    /\ pc = "task" =>
           /\ task.i \in 1..Len(relevant_modules)
           /\ Len(module_results) = task.i - 1
           /\ task.stage \in {"rank", "files"} => Len(task.items) > 0

\* C13 witness: an invocation that called every collaborator and returned
\* resources.
C13_Witness ==
    /\ ReturnedList
    /\ \A call \in {"vision", "fetch_courses", "llm_course", "fetch_modules",
                    "llm_modules", "fetch_items", "llm_rank", "fetch_file"} :
           Called(call)

StageReasons ==
    {"No courses found", "Failed to analyze query", "No relevant course found",
     "No modules found", "No relevant modules found",
     "No relevant resources found"}

\* C14: an error object returned after the input validation has passed carries
\* one of the stage reasons, that of the first stage that could not proceed:
\* "No courses found" when fetch_courses was absent, "Failed to analyze query"
\* when the classifier was absent, "No relevant resources found" when every
\* selected module contributed an empty list.
C14_StageReasons ==
    (Returned /\ result.tag = "error" /\ result.details # "input") =>
        /\ result.error \in StageReasons
        /\ IsNone(courses) => result.error = "No courses found"
        /\ (~IsNone(courses) /\ IsNone(course_analysis)) =>
               /\ result.error = "Failed to analyze query"
               /\ result.details = "course"
        /\ ( /\ Len(module_results) > 0
             /\ \A t \in 1..Len(module_results) :
                    module_results[t] = TaskList(<<>>) ) =>
               result.error = "No relevant resources found"

\* C15: when every collaborator call returns or fails, every invocation of
\* find_resources reaches a terminal outcome, a resource list or an error
\* object; no stage retries or loops for ever.
C15_Terminates ==
    (pc # "idle") ~> (pc = "done" /\ result.tag \in {"list", "error"})

\* C15 witness: an invocation has returned after two process_module tasks, the
\* second of which fetched a file URL.
C15_Witness ==
    /\ Returned
    /\ Len(module_results) = 2
    /\ calls[Len(calls)] = "fetch_file"

\* what get_module_items and analyze_resource_relevance hand to the running
\* task, read from the cache after the step: a value they return is cached
ItemsHanded(c, ts) ==
    CacheGetKeyed(c, ts, now, "module_items",
                  PairKey(CourseId, CurrentModule.id))

RankingHanded(c, ts) ==
    CacheGetKeyed(c, ts, now, "resource_analysis",
                  ResourceKey(course_name.s, CurrentModule.name, query.s))

NoIndicesIn(a) ==
    a.tag = "dict" /\
        ("resource_indices" \notin a.keys \/ Len(a.resource_indices) = 0)

\* C16: process_module returns an empty list, and neither None, nor an error
\* object, nor an exception, when the item fetch of the module returns absent
\* or no items, when the ranker returns absent, and when the ranker's result
\* has an empty or no resource_indices.
C16_EmptyContribution ==
    [][( /\ pc = "task"
         /\ \/ /\ task.stage = "items"
               /\ IsNone(ItemsHanded(cache', cache_timestamps'))
            \/ /\ task.stage = "rank"
               /\ \/ IsNone(RankingHanded(cache', cache_timestamps'))
                  \/ NoIndicesIn(RankingHanded(cache', cache_timestamps')) )
       => module_results' = Append(module_results, TaskList(<<>>))]_vars

\* C16 witness: a task whose ranking has no resource_indices has contributed
\* an empty list, after a task whose item fetch was absent.
C16_Witness ==
    /\ pc \in {"task", "done"}
    /\ Len(module_results) = 2
    /\ module_results[1] = TaskList(<<>>)
    /\ module_results[2] = TaskList(<<>>)
    /\ \E t \in 1..2 :
        LET key == ResourceKey(course_name.s, relevant_modules[t].name, query.s)
        IN  /\ key \in DOMAIN cache.resource_analysis
            /\ NoIndicesIn(cache.resource_analysis[key])
    /\ \E t \in 1..2 :
        PairKey(CourseId, relevant_modules[t].id) \notin DOMAIN cache.module_items

\* the courses whose name is exactly the name asked for
ExactCourses == {i \in 1..Len(courses.m) : courses.m[i].name = course_name.s}

\* C17: get_assignments_by_course_name resolves the course by its exact name:
\* it fetches the assignments of the course that has exactly that name, and
\* returns None, fetching no assignments, when no course has exactly that name.
C17_ExactName ==
    (pc = "done" /\ Truthy(courses)) =>
        IF ExactCourses = {}
        THEN /\ IsNone(result)
             /\ IsNone(assignments_of)
             /\ \A i \in 1..Len(calls) : calls[i] # "fetch_assignments"
        ELSE \E i \in ExactCourses : assignments_of = IntV(courses.m[i].id)

\* the image step has called analyze_image_with_gemini
Analysed == \E i \in 1..Len(calls) : calls[i] = "vision"

\* C18: the query of the later stages is "{query} - {caption}" when an
\* existing image yields a caption and a text query was given, the caption
\* alone when only the caption exists, and the unchanged text query when the
\* image is missing or its analysis fails; when the analysis fails and no text
\* query was given, the operation ends with an error object, not resources.
C18_ImageQuery ==
    (pc \notin {"idle", "image"} /\ IsNone(InputError(in_query, image_path))) =>
        /\ Analysed <=> (Truthy(image_path) /\ image_path.exists)
        /\ ~Analysed => query = in_query
        /\ (Analysed /\ Truthy(llm.caption) /\ Truthy(in_query)) =>
               query = Str(in_query.s \o <<" ", "-", " ">> \o llm.caption.s)
        /\ (Analysed /\ Truthy(llm.caption) /\ ~Truthy(in_query)) =>
               query = llm.caption
        /\ (Analysed /\ ~Truthy(llm.caption)) => query = in_query
        /\ (Analysed /\ ~Truthy(llm.caption) /\ ~Truthy(in_query) /\ Returned) =>
               result.tag = "error"

\* the collaborator has answered the classifier with a JSON object that names
\* a course, and the first stage has returned
Classified ==
    /\ pc # "classify"
    /\ llm.course.kind = "text"
    /\ HasKey(ParseResponse(llm.course), "course_name")

AnswerName == ParseResponse(llm.course).course_name

\* numerator and denominator of the positional score of candidate i
Agree(i) == AlignedEqual(Lower(courses.m[i].name), Lower(AnswerName), 1)

Longer(i) == Max(Len(courses.m[i].name), Len(AnswerName))

\* the candidates of highest score, and the first of them
TopCandidates ==
    {i \in 1..Len(courses.m) :
        \A j \in 1..Len(courses.m) : Agree(j) * Longer(i) <= Agree(i) * Longer(j)}

TopCandidate == CHOOSE i \in TopCandidates : \A j \in TopCandidates : i <= j

FreshCourseAnalysis ==
    CacheGetKeyed(cache, cache_timestamps, now, "course_analysis",
                  QueryKey(query.s))

Selected == pc # "select" /\ llm.modules.kind = "text"

AnswerNames == llm.modules.payload.module_names

\* a is a run of consecutive characters of b, both case-folded
FoldedWithin(a, b) ==
    LET la == Lower(a)
        lb == Lower(b)
    IN \E i \in 0..(Len(lb) - Len(la)) : \A k \in 1..Len(la) : lb[i + k] = la[k]

Related(name, i) ==
    \/ FoldedWithin(name, modules.l[i].name)
    \/ FoldedWithin(modules.l[i].name, name)

\* what the claim keeps of one returned name: the name, a candidate, or nothing
KeptOf(name) ==
    IF \E i \in 1..Len(modules.l) : modules.l[i].name = name THEN <<name>>
    ELSE IF \E i \in 1..Len(modules.l) : Related(name, i)
    THEN LET first == CHOOSE i \in 1..Len(modules.l) :
                          /\ Related(name, i)
                          /\ \A j \in 1..Len(modules.l) : Related(name, j) => i <= j
         IN <<modules.l[first].name>>
    ELSE <<>>

RECURSIVE KeptFrom(_)
KeptFrom(i) ==
    IF i > Len(AnswerNames) THEN <<>> ELSE KeptOf(AnswerNames[i]) \o KeptFrom(i + 1)

FreshModuleAnalysis ==
    CacheGetKeyed(cache, cache_timestamps, now, "module_analysis",
                  ModuleKey(courses.m, query.s))

\* C20: each name returned by the selector, in order, is kept if it equals a
\* candidate module name, else replaced by the first candidate, in candidate
\* order, such that one of the two contains the other case-insensitively, else
\* dropped; if no name remains the stage returns absent and caches nothing.
C20_SelectorValidation ==
    Selected =>
        IF KeptFrom(1) = <<>>
        THEN /\ IsNone(module_analysis)
             /\ IsNone(FreshModuleAnalysis)
             /\ cache.module_analysis = <<>>
        ELSE /\ HasKey(module_analysis, "module_names")
             /\ module_analysis.module_names = KeptFrom(1)
             /\ FreshModuleAnalysis = module_analysis

\* C20 witness: of two returned names the first is replaced by the first of
\* two candidates that both contain it after case-folding, and the second,
\* related to no candidate, is dropped.
C20_Witness ==
    /\ Selected
    /\ Len(AnswerNames) = 2
    /\ Len(module_analysis.module_names) = 1
    /\ module_analysis.module_names[1] = modules.l[1].name
    /\ module_analysis.module_names[1] # AnswerNames[1]
    /\ Related(AnswerNames[1], 2)
    /\ \A i \in 1..Len(modules.l) : ~Related(AnswerNames[2], i)

\* "module_names: ... (maximum 3)" of the second-stage prompt
MaxModuleNames == 3

\* C21: the result of the module selector holds at most 3 module names, for
\* every answer of the collaborator, also one that lists more than 3 valid
\* module names.
C21_AtMostThreeModules ==
    (Selected /\ HasKey(module_analysis, "module_names")) =>
        Len(module_analysis.module_names) <= MaxModuleNames

\* "resource_indices: ... (maximum 5)" of the third-stage prompt
MaxResources == 5

\* the first process_module task has returned a list
FirstTaskReturned ==
    Len(module_results) >= 1 /\ module_results[1].tag = "list"

\* C22: process_module returns a list of at most 5 Resources for every answer
\* of the ranker, also one whose resource_indices has more than 5 in-range
\* entries.
C22_AtMostFiveResources ==
    FirstTaskReturned => Len(module_results[1].l) <= MaxResources

\* the case-folded words of s that are longer than n characters
LongerThan(s, n) ==
    LET words == Split(s)
    IN {Lower(words[k]) : k \in {j \in 1..Len(words) : Len(words[j]) > n}}

CourseAt(i) == courses.m[i].name

\* the words of more than 3 characters that query and course i have in common
Common(i) ==
    Cardinality(LongerThan(query.s, 3) \cap LongerThan(CourseAt(i), 3))

Fewer(i) ==
    IF Cardinality(LongerThan(query.s, 3)) <= Cardinality(LongerThan(CourseAt(i), 3))
    THEN Cardinality(LongerThan(query.s, 3))
    ELSE Cardinality(LongerThan(CourseAt(i), 3))

\* the courses with a positive overlap score
Overlapping == {i \in 1..Len(courses.m) : Common(i) > 0}

\* the first of the courses of highest overlap score
TopOverlap ==
    {i \in Overlapping :
        /\ \A j \in Overlapping : Common(j) * Fewer(i) <= Common(i) * Fewer(j)
        /\ \A j \in Overlapping :
              Common(j) * Fewer(i) = Common(i) * Fewer(j) => i <= j}

\* the first stage has named no key of courses, and the matching has run
FellBack ==
    /\ pc # "classify"
    /\ course_analysis.tag = "dict"
    /\ ~(/\ HasKey(course_analysis, "course_name")
         /\ HasName(courses.m, course_analysis.course_name))

Chosen(i) == pc = "modules" /\ course_name = Str(CourseAt(i))

\* course i and the name of the first stage contain one another, case-folded
SubstringQualifies(i) ==
    /\ HasKey(course_analysis, "course_name")
    /\ \/ FoldedWithin(course_analysis.course_name, CourseAt(i))
       \/ FoldedWithin(CourseAt(i), course_analysis.course_name)

\* the name of course i contains a query word of more than 4 characters
KeywordQualifies(i) ==
    \E w \in LongerThan(query.s, 4) : FoldedWithin(w, CourseAt(i))

\* C23: the overlap score of a course is |query words /\ name words| /
\* min(|query words|, |name words|) over case-folded words longer than 3
\* characters; the course of highest score is chosen by this rule only if the
\* score is at least 0.2, and a course whose best score is positive but below
\* 0.2 is not selected unless the substring or the keyword rule selects it.
C23_OverlapRule ==
    FellBack =>
        /\ \A i \in TopOverlap : 5 * Common(i) >= Fewer(i) => Chosen(i)
        /\ \A i \in Overlapping :
              (Chosen(i) /\ \A j \in Overlapping : 5 * Common(j) < Fewer(j))
                  => (SubstringQualifies(i) \/ KeywordQualifies(i))

\* the courses the keyword rule admits
KeywordCourses == {i \in 1..Len(courses.m) : KeywordQualifies(i)}

\* C24: when neither the word-overlap rule nor the substring rule selects a
\* course, the first course in mapping order whose lower-cased name contains a
\* lower-cased query word longer than 4 characters is chosen; if there is
\* none, the pipeline returns the error "No relevant course found" and never
\* goes on with some other course.
C24_KeywordRule ==
    (/\ FellBack
     /\ \A i \in 1..Len(courses.m) :
           /\ ~(Common(i) > 0 /\ 5 * Common(i) >= Fewer(i))
           /\ ~SubstringQualifies(i))
        => IF KeywordCourses # {}
           THEN \E i \in KeywordCourses :
                   Chosen(i) /\ \A j \in KeywordCourses : i <= j
           ELSE /\ pc = "done"
                /\ result.tag = "error"
                /\ result.error = "No relevant course found"

\* the second stage has returned a JSON object and the modules were resolved
Resolved == pc \in {"task", "done"} /\ module_analysis.tag = "dict"

\* the fetched modules the claim selects
Wanted ==
    LET keywords == LongerThan(query.s, 3)
    IN {i \in 1..Len(modules.l) :
           \/ /\ "module_names" \in module_analysis.keys
              /\ \E k \in 1..Len(module_analysis.module_names) :
                    module_analysis.module_names[k] = modules.l[i].name
           \/ \E w \in keywords : FoldedWithin(w, modules.l[i].name)}

\* C25: a fetched module is selected if and only if its name is in the
\* selector's module_names or some query word longer than 3 characters occurs
\* case-insensitively in its name; the selected modules keep the fetched order,
\* each at most once; "No relevant modules found" is returned exactly when no
\* module is selected.
C25_ModuleResolution ==
    Resolved =>
        LET wanted == Wanted
        IN  /\ Len(relevant_modules) = Cardinality(wanted)
            /\ \A k \in 1..Len(relevant_modules) :
                  \E i \in wanted :
                      /\ Cardinality({j \in wanted : j <= i}) = k
                      /\ relevant_modules[k] = modules.l[i]
            /\ wanted = {} =>
                  /\ pc = "done"
                  /\ result = Err("No relevant modules found", "query")
            /\ (result.tag = "error" /\ result.error = "No relevant modules found")
                  => wanted = {}

\* C25 witness: the first module is selected for a query word in its name, the
\* second because the selector named it, in the fetched order.
C25_Witness ==
    /\ Resolved
    /\ Len(relevant_modules) = 2
    /\ relevant_modules = modules.l
    /\ module_analysis.module_names = <<modules.l[2].name>>
    /\ \E w \in LongerThan(query.s, 3) : FoldedWithin(w, modules.l[1].name)

\* the ranking and the items of the first selected module, as cached
FirstRanking ==
    CacheGetKeyed(cache, cache_timestamps, now, "resource_analysis",
                  ResourceKey(course_name.s, relevant_modules[1].name, query.s))

FirstItems ==
    CacheGetKeyed(cache, cache_timestamps, now, "module_items",
                  PairKey(CourseId, relevant_modules[1].id)).l

\* the first process_module task has ended on a ranking with indices, none of
\* which lies before the first item
FirstTaskRanked ==
    /\ Len(module_results) >= 1
    /\ FirstRanking.tag = "dict"
    /\ "resource_indices" \in FirstRanking.keys
    /\ \A k \in 1..Len(FirstRanking.resource_indices) :
          FirstRanking.resource_indices[k] >= 0 - Len(FirstItems)

\* the positions of resource_indices whose index is below len(items)
InRangePositions ==
    {k \in 1..Len(FirstRanking.resource_indices) :
        FirstRanking.resource_indices[k] < Len(FirstItems)}

\* the j-th of them
NthInRange(j) ==
    CHOOSE k \in InRangePositions :
        Cardinality({h \in InRangePositions : h <= k}) = j

\* items[idx]
ItemAt(idx) ==
    IF idx >= 0 THEN FirstItems[idx + 1] ELSE FirstItems[Len(FirstItems) + idx + 1]

\* C26: an index of the ranker that is at or beyond len(items) is skipped
\* silently: it yields no Resource and no error, and the other indices of the
\* response yield their Resources, in order.
C26_OutOfRangeSkipped ==
    FirstTaskRanked =>
        /\ module_results[1].tag = "list"
        /\ Len(module_results[1].l) = Cardinality(InRangePositions)
        /\ \A j \in 1..Len(module_results[1].l) :
              module_results[1].l[j].title
                  = ItemAt(FirstRanking.resource_indices[NthInRange(j)]).title

\* C26 witness: the first of three indices is beyond the items, and the two
\* after it have yielded their Resources.
C26_Witness ==
    /\ FirstTaskRanked
    /\ Len(FirstRanking.resource_indices) = 3
    /\ FirstRanking.resource_indices[1] >= Len(FirstItems)
    /\ InRangePositions = {2, 3}
    /\ Len(module_results[1].l) = 2

\* C27: the Resource built for the k-th entry of resource_indices has the
\* score relevance_scores[k] when there is one, else 0.5; the pairing is by
\* position in resource_indices, so that a skipped index does not shift the
\* scores of the entries after it.
C27_ScoreByPosition ==
    FirstTaskRanked =>
        /\ module_results[1].tag = "list"
        /\ \A j \in 1..Len(module_results[1].l) :
              LET k == NthInRange(j)
                  scores == IF "relevance_scores" \in FirstRanking.keys
                            THEN FirstRanking.relevance_scores ELSE <<>>
              IN module_results[1].l[j].relevance_score
                     = IF k <= Len(scores) THEN scores[k] ELSE [n |-> 1, d |-> 2]

\* C27 witness: after a skipped first index, the second entry has the second
\* score and the third, for which there is no score, has 0.5.
C27_Witness ==
    /\ FirstTaskRanked
    /\ Len(FirstRanking.resource_indices) = 3
    /\ Len(FirstRanking.relevance_scores) = 2
    /\ InRangePositions = {2, 3}
    /\ Len(module_results[1].l) = 2
    /\ module_results[1].l[1].relevance_score = FirstRanking.relevance_scores[2]
    /\ module_results[1].l[2].relevance_score = [n |-> 1, d |-> 2]
    /\ FirstRanking.relevance_scores[1] # FirstRanking.relevance_scores[2]

\* the item is of type File and has a content_id
IsLinkedFile(item) == item.type = "File" /\ "content_id" \in DOMAIN item

\* the item of the j-th Resource of the first task
ChosenItem(j) == ItemAt(FirstRanking.resource_indices[NthInRange(j)])

\* the Resources of the running task after a step of its file-URL loop
ResourcesAfter ==
    IF task'.stage = "files" THEN task'.resources
    ELSE module_results'[Len(module_results')].l

\* C28: get_file_url is called only for chosen items of type File that have a
\* content_id, and the url of a Resource is replaced by the resolved URL only
\* when that call returns a non-empty URL; for every other item, and when the
\* resolution fails, the url stays the item's html_url and the Resource is
\* still returned.
C28_FileUrlEnrichment ==
    /\ [](FirstTaskRanked =>
            /\ module_results[1].tag = "list"
            /\ Len(module_results[1].l) = Cardinality(InRangePositions)
            /\ \A j \in 1..Len(module_results[1].l) :
                  ~IsLinkedFile(ChosenItem(j)) =>
                      module_results[1].l[j].url = ChosenItem(j).html_url
            /\ (\E i \in 1..Len(calls) : calls[i] = "fetch_file") =>
                  \E j \in 1..Len(module_results[1].l) : IsLinkedFile(ChosenItem(j)))
    /\ [][(pc = "task" /\ task.stage = "files") =>
            LET item == task.resources[task.k].item
                resolved == CacheGetKeyed(cache', cache_timestamps', now,
                                "file_urls", PairKey(CourseId, item.content_id))
            IN  /\ IsLinkedFile(item)
                /\ Len(ResourcesAfter) = Len(task.resources)
                /\ ResourcesAfter[task.k].url
                       = IF Truthy(resolved) THEN resolved.s ELSE item.html_url
                /\ \A j \in 1..Len(task.resources) :
                      j # task.k => ResourcesAfter[j].url = task.resources[j].url]_vars

\* C28 witness: of three Resources returned, one is a File whose resolution
\* failed, one a File whose url was replaced, and one a File without
\* content_id.
C28_Witness ==
    /\ FirstTaskRanked
    /\ module_results[1].tag = "list"
    /\ Len(module_results[1].l) = 3
    /\ \E j \in 1..3 :
          /\ IsLinkedFile(ChosenItem(j))
          /\ module_results[1].l[j].url = ChosenItem(j).html_url
    /\ \E j \in 1..3 :
          /\ IsLinkedFile(ChosenItem(j))
          /\ module_results[1].l[j].url # ChosenItem(j).html_url
    /\ \E j \in 1..3 :
          /\ ChosenItem(j).type = "File"
          /\ ~IsLinkedFile(ChosenItem(j))
          /\ module_results[1].l[j].url = ChosenItem(j).html_url

\* the calls of a collaborator in the running invocation
CallCount(call) == Cardinality({i \in 1..Len(calls) : calls[i] = call})

\* the process_module tasks that have reached their ranking
TasksRanked ==
    Len(module_results) + (IF pc = "task" /\ task.stage = "files" THEN 1 ELSE 0)

\* C29: within one invocation the text-completion collaborator is called at
\* most once for the course classification, at most once for the module
\* selection and at most once for every selected module's ranking, and the
\* vision collaborator at most once; a completion that fails or cannot be
\* parsed is not issued again.
C29_NoRetry ==
    /\ CallCount("vision") <= 1
    /\ CallCount("llm_course") <= 1
    /\ CallCount("llm_modules") <= 1
    /\ CallCount("llm_rank") <= Len(relevant_modules)
    /\ CallCount("llm_rank") <= TasksRanked

\* C29 witness: an invocation with two selected modules has returned after
\* one call of every kind and one ranking call for each module, the first of
\* which failed and left nothing in the cache.
C29_Witness ==
    /\ Returned
    /\ Len(relevant_modules) = 2
    /\ Len(module_results) = 2
    /\ CallCount("vision") = 1
    /\ CallCount("llm_course") = 1
    /\ CallCount("llm_modules") = 1
    /\ CallCount("llm_rank") = 2
    /\ IsNone(FirstRanking)
    /\ module_results[1] = TaskList(<<>>)

\* the step contacted a collaborator for a fetch or an analysis and the
\* operation returned None: the value handed on is None, or, for the ranking
\* and the file URL, the lookup of the key is still empty after the step
FailedStep ==
    \/ calls' = Append(calls, "fetch_courses") /\ IsNone(courses')
    \/ calls' = Append(calls, "llm_course") /\ IsNone(course_analysis')
    \/ calls' = Append(calls, "fetch_modules") /\ IsNone(modules')
    \/ calls' = Append(calls, "llm_modules") /\ IsNone(module_analysis')
    \/ /\ calls' = Append(calls, "fetch_items")
       /\ Len(module_results') > Len(module_results)
    \/ /\ calls' = Append(calls, "llm_rank")
       /\ IsNone(CacheGetKeyed(cache', cache_timestamps', now,
                    "resource_analysis",
                    ResourceKey(course_name.s, CurrentModule.name, query.s)))
    \/ /\ calls' = Append(calls, "fetch_file")
       /\ IsNone(CacheGetKeyed(cache', cache_timestamps', now, "file_urls",
                    PairKey(CourseId, task.resources[task.k].item.content_id)))

\* C30: a fetch (courses, modules, module items, file URL) or an analysis
\* stage that returns None leaves every cache value and every cache timestamp
\* as it was, so that no failure is cached.
C30_FailureNotCached == [][FailedStep => UNCHANGED cacheVars]_vars

\* the cache domain and key that the pipeline's next step looks up, and the
\* collaborator call that a miss makes
NoLookup == [type |-> "none", key |-> <<>>, call |-> "none"]

PendingLookup ==
    CASE pc = "courses" ->
           [type |-> "courses", key |-> <<>>, call |-> "fetch_courses"]
      [] pc = "classify" /\ ~IsNone(query) ->
           [type |-> "course_analysis", key |-> QueryKey(query.s),
            call |-> "llm_course"]
      [] pc = "modules" ->
           [type |-> "modules", key |-> CourseId, call |-> "fetch_modules"]
      [] pc = "select" ->
           [type |-> "module_analysis", key |-> ModuleKey(courses.m, query.s),
            call |-> "llm_modules"]
      [] pc = "task" /\ task.stage = "items" ->
           [type |-> "module_items", key |-> PairKey(CourseId, CurrentModule.id),
            call |-> "fetch_items"]
      [] pc = "task" /\ task.stage = "rank" ->
           [type |-> "resource_analysis",
            key |-> ResourceKey(course_name.s, CurrentModule.name, query.s),
            call |-> "llm_rank"]
      [] pc = "task" /\ task.stage = "files" ->
           [type |-> "file_urls",
            key |-> PairKey(CourseId, task.resources[task.k].item.content_id),
            call |-> "fetch_file"]
      [] OTHER -> NoLookup

\* the value stored under lookup l in cache c, when it is within its TTL
Looked(c, ts, l) ==
    IF l.type = "courses" THEN CacheGetSingle(c, ts, now, "courses")
    ELSE CacheGetKeyed(c, ts, now, l.type, l.key)

\* the time at which the entry of lookup l was written
StampOf(ts, l) == IF l.type = "courses" THEN ts[l.type] ELSE ts[l.type][l.key]

\* what the operation of lookup l handed to its caller in this step, or None
\* where the model keeps no copy of it
HandedOn(l) ==
    CASE l.type = "courses" -> courses'
      [] l.type = "course_analysis" -> course_analysis'
      [] l.type = "modules" -> modules'
      [] l.type = "module_analysis" -> module_analysis'
      [] l.type = "module_items" -> [tag |-> "list", l |-> task'.items]
      [] OTHER -> NoneV

\* C31: when a value is stored for the key and its TTL has not elapsed, the
\* operation returns the stored value and calls no collaborator; otherwise it
\* calls the collaborator, and a value it then returns is in the cache under
\* the key with the time of the call as its timestamp.
C31_HitSuppressesCall ==
    [][LET l == PendingLookup
           held == Looked(cache, cache_timestamps, l)
       IN l.type # "none" =>
            IF ~IsNone(held)
            THEN /\ calls' = calls
                 /\ UNCHANGED cacheVars
                 /\ l.type \in {"courses", "course_analysis", "modules",
                                "module_analysis", "module_items"} =>
                        HandedOn(l) = held
            ELSE /\ calls' = Append(calls, l.call)
                 /\ ~IsNone(Looked(cache', cache_timestamps', l)) =>
                        StampOf(cache_timestamps', l) = now]_vars

\* the queries a and b have the same lower-cased first 100 characters
SameKey(a, b) == Take(Lower(a), KeyLen) = Take(Lower(b), KeyLen)

\* the step is the second classifier call, made within the TTL of the first
\* call's result with a query that has the key of the first call's query
SecondCallSameKey ==
    /\ pc = "classify"
    /\ runs = 2
    /\ pc' # "classify"
    /\ ~IsNone(course_analysis)
    /\ SameKey(query.s, in_query.s)
    /\ now < CACHE_TTL.course_analysis

\* C32: the classifier's cache key is the lower-cased first 100 characters of
\* the query and nothing else: a second call within the TTL whose query has
\* the key of the first call's query returns the first call's result and
\* calls the LLM no second time, whatever mapping it passes and however the
\* queries differ in letter case or after character 100.
C32_ClassifierKey ==
    [][SecondCallSameKey =>
         /\ course_analysis' = course_analysis
         /\ calls' = calls
         /\ calls = <<"llm_course">>]_vars

\* C32 witness: the second call has returned the first call's result with
\* one LLM call in all, for a query longer than 100 characters that differs
\* from the first query, and the course named is not a key of the mapping
\* the second call passed.
C32_Witness ==
    /\ runs = 2
    /\ pc # "classify"
    /\ calls = <<"llm_course">>
    /\ query.s # in_query.s
    /\ Len(query.s) > KeyLen
    /\ Lower(query.s) # Lower(in_query.s)
    /\ Truthy(course_analysis)
    /\ "course_name" \in course_analysis.keys
    /\ ~HasName(courses.m, course_analysis.course_name)

\* the id of the first course of the mapping m, an underscore, and the
\* lower-cased first 100 characters of q
FirstIdAndQuery(m, q) ==
    StrOfInt(m[1].id) \o <<"_">> \o Take(Lower(q), KeyLen)

\* the step is a selector call
SelectorCall == pc = "select" /\ pc' # "select"

\* C33: the selector's cache key is the id of the first course of the mapping
\* together with the lower-cased first 100 characters of the query: a result
\* the first call returns is stored under that key and no other, and a second
\* call within the TTL whose first course id and query give the same key
\* returns the first call's result and calls the LLM no second time, whatever
\* module list and whatever resolved course it comes with.
C33_SelectorKey ==
    /\ [][(SelectorCall /\ runs = 1 /\ ~IsNone(module_analysis')) =>
            DOMAIN cache'.module_analysis =
                {FirstIdAndQuery(courses.m, query.s)}]_vars
    /\ [][(/\ SelectorCall
           /\ runs = 2
           /\ ~IsNone(module_analysis)
           /\ FirstIdAndQuery(courses.m, query.s) \in DOMAIN cache.module_analysis
           /\ now < CACHE_TTL.module_analysis) =>
            /\ module_analysis' = module_analysis
            /\ calls' = calls
            /\ calls = <<"llm_modules">>]_vars

\* C33 witness: the second call has returned the first call's result with
\* one LLM call in all, although the result names a module that is not in
\* the list the second call passed and the course it was made for is not the
\* first course of the mapping.
C33_Witness ==
    /\ runs = 2
    /\ pc \in {"task", "done"}
    /\ calls = <<"llm_modules">>
    /\ query.s # in_query.s
    /\ Truthy(module_analysis)
    /\ \E i \in 1..Len(GetModuleNames(module_analysis)) :
          ~InSeq(GetModuleNames(module_analysis)[i], ModuleNames(modules.l))
    /\ course_name.s # courses.m[1].name

\* what find_resources returns when the tasks run one after the other in
\* the order of the modules
InOrderResult == Aggregate(RunInOrder(1, FanCache.c, FanCache.ts))

\* C34: whatever the order in which the per-module tasks take their steps
\* and return, the list find_resources returns is the one of the run in
\* module order, and nothing is aggregated before every task has returned.
C34_OrderIndependent ==
    /\ pc = "done" =>
          /\ result = InOrderResult
          /\ \A i \in 1..Len(task) : task[i].stage = "ended"
    /\ pc = "task" => IsNone(result)

\* C34 witness: the second task returned before the first, both share the
\* file whose URL one of them fetched, and the list returned holds the four
\* resources with the first module's in front.
C34_Witness ==
    /\ pc = "done"
    /\ task[2].order = 1
    /\ task[1].order = 2
    /\ result.tag = "list"
    /\ Len(result.l) = 4
    /\ result.l[1].module = Matrices
    /\ result.l[3].module = Vectors
    /\ Cardinality({i \in 1..Len(calls) : calls[i] = "fetch_file"}) = 1

\* the cache domain and key of the call site at which task i stands
FanLookup(i) ==
    CASE task[i].stage = "items" ->
           [type |-> "module_items",
            key |-> PairKey(CourseId, relevant_modules[i].id)]
      [] task[i].stage = "rank" ->
           [type |-> "resource_analysis",
            key |-> ResourceKey(course_name.s, relevant_modules[i].name,
                                query.s)]
      [] task[i].stage = "files" ->
           [type |-> "file_urls",
            key |-> PairKey(CourseId,
                            task[i].resources[task[i].k].item.content_id)]
      [] OTHER -> [type |-> "none", key |-> <<>>]

\* the step wrote the value or the timestamp of the entry k of domain d
Written(d, k) ==
    \/ k \notin DOMAIN cache[d]
    \/ k \notin DOMAIN cache_timestamps[d]
    \/ k \notin DOMAIN cache'[d]
    \/ k \notin DOMAIN cache_timestamps'[d]
    \/ cache'[d][k] # cache[d][k]
    \/ cache_timestamps'[d][k] # cache_timestamps[d][k]

\* C35: every keyed cache entry has its value and its timestamp together,
\* and, however the per-module tasks interleave, a step writes no entry but
\* the one its own call site has looked up in the same step, with the value
\* and the timestamp of one cache_set: no other task's write comes between
\* a call site's read and its write.
C35_CacheAtomic ==
    /\ [](\A d \in KeyedDomains : DOMAIN cache[d] = DOMAIN cache_timestamps[d])
    /\ [][\A i \in 1..Len(task) :
            task'[i] # task[i] =>
               \A d \in KeyedDomains :
                 \A k \in UNION {DOMAIN cache[d], DOMAIN cache'[d],
                                 DOMAIN cache_timestamps[d],
                                 DOMAIN cache_timestamps'[d]} :
                    Written(d, k) =>
                       /\ d = FanLookup(i).type
                       /\ k = FanLookup(i).key
                       /\ k \in DOMAIN cache'[d]
                       /\ k \in DOMAIN cache_timestamps'[d]
                       /\ cache_timestamps'[d][k] = now
                       /\ ~Truthy(CacheGetKeyed(cache, cache_timestamps, now,
                                                d, k))]_vars
    /\ [][(task' = task) => UNCHANGED cacheVars]_vars

\* C35 witness: the second task ran from its start to its return, writing its
\* items, its ranking and the file URL, between the first task's item fetch
\* and its ranking; the first task will find the file URL in the cache.
C35_Witness ==
    /\ pc = "task"
    /\ task[1].stage = "rank"
    /\ task[2].stage = "ended"
    /\ calls[Len(calls) - 3] = "fetch_items"
    /\ PairKey(CourseId, 11) \in DOMAIN cache.module_items
    /\ PairKey(CourseId, 12) \in DOMAIN cache.module_items
    /\ PairKey(CourseId, 7) \in DOMAIN cache.file_urls
    /\ ResourceKey(course_name.s, Vectors, query.s)
          \in DOMAIN cache.resource_analysis
    /\ ResourceKey(course_name.s, Matrices, query.s)
          \notin DOMAIN cache.resource_analysis

\* the positions of resource_indices whose index i has 0 <= i < len(items)
WithinItemsPositions ==
    {k \in 1..Len(FirstRanking.resource_indices) :
        /\ FirstRanking.resource_indices[k] >= 0
        /\ FirstRanking.resource_indices[k] < Len(FirstItems)}

\* C36: the Resources process_module returns are those of the ranker's
\* indices i with 0 <= i < len(items), one for each; an index outside that
\* range, a negative one in particular, yields no Resource.
C36_IndexWithinItems ==
    (/\ Len(module_results) >= 1
     /\ module_results[1].tag = "list"
     /\ FirstRanking.tag = "dict"
     /\ "resource_indices" \in FirstRanking.keys) =>
        Len(module_results[1].l) = Cardinality(WithinItemsPositions)

\* the item list the ranker was shown when it gave the ranking in the cache:
\* the first invocation's list for a ranking of the first invocation, else
\* the list just fetched
ShownItems ==
    IF cache_timestamps.resource_analysis[
           ResourceKey(course_name.s, relevant_modules[1].name, query.s)] = 0
    THEN Items
    ELSE FirstItems

\* C37: every Resource returned for a module has the title and the type of
\* an item the ranker chose from the list it was shown, also when the items
\* have expired and been fetched anew while the ranking is served from the
\* cache.
C37_RankerFidelity ==
    (/\ pc = "done"
     /\ Len(module_results) = 1
     /\ module_results[1].tag = "list"
     /\ FirstRanking.tag = "dict") =>
        \A j \in 1..Len(module_results[1].l) :
           \E k \in 1..Len(FirstRanking.resource_indices) :
              LET idx == FirstRanking.resource_indices[k]
              IN  /\ idx < Len(ShownItems)
                  /\ module_results[1].l[j].title = ShownItems[idx + 1].title
                  /\ module_results[1].l[j].type = ShownItems[idx + 1].type

\* a step of the first stage answered by a fresh call whose parsed answer
\* contains course_name
FreshNamedAnswer ==
    /\ pc = "classify"
    /\ calls' = Append(calls, "llm_course")
    /\ HasKey(ParseResponse(llm'.course), "course_name")

\* C38: when the first stage is answered by a fresh call against the mapping
\* the orchestrator holds and the parsed answer contains course_name, the
\* course_name returned is a key of the mapping and is the course the
\* orchestrator goes on with: the course matching is not entered.
C38_FreshAnswerNamesKey ==
    [][FreshNamedAnswer =>
          /\ ~FellBack'
          /\ Truthy(course_analysis') =>
                /\ HasName(courses.m, course_analysis'.course_name)
                /\ pc' = "modules"
                /\ course_name' = Str(course_analysis'.course_name)
          /\ ~Truthy(course_analysis') => pc' = "done"]_vars

\* a fresh answer naming no key was replaced by the closest key, and the
\* orchestrator went on with it
C38_Witness ==
    /\ pc = "modules"
    /\ calls = <<"fetch_courses", "llm_course">>
    /\ HasKey(llm.course.payload, "course_name")
    /\ ~HasName(courses.m, llm.course.payload.course_name)
    /\ course_analysis.fixed
    /\ HasName(courses.m, course_analysis.course_name)
    /\ course_name = Str(course_analysis.course_name)

\* the step is a call of update_assignment_dates or update_student_extension
\* that returned True
UpdatedTrue ==
    /\ task'.fn \in {"update_assignment_dates", "update_student_extension"}
    /\ result' = BoolV(TRUE)

\* the cache domain and the key an update is to clear
ClearedDomain(call) ==
    IF call.fn = "update_assignment_dates" THEN "assignments" ELSE "extensions"

ClearedKey(call) ==
    IF call.fn = "update_assignment_dates" THEN call.course_id
    ELSE GsKey(call.course_id, call.assignment_id)

\* after an update that returned True the cache has no entry for its key
NoEntryAfterTrue ==
    (/\ task.fn \in {"update_assignment_dates", "update_student_extension"}
     /\ result = BoolV(TRUE)) =>
        ClearedKey(task) \notin DOMAIN cache[ClearedDomain(task)]

\* the keyed domains keep every entry but the one of the update's key
OtherEntriesKept ==
    \A d \in {"assignments", "submissions", "users", "extensions"} :
       /\ DOMAIN cache'[d] =
             IF d = ClearedDomain(task') THEN DOMAIN cache[d] \ {ClearedKey(task')}
             ELSE DOMAIN cache[d]
       /\ \A k \in DOMAIN cache'[d] : cache'[d][k] = cache[d][k]

\* the getter called next for the key of an update that returned True asks
\* Gradescope
RefetchedAfterTrue ==
    (/\ task.fn \in {"update_assignment_dates", "update_student_extension"}
     /\ result = BoolV(TRUE)
     /\ task'.fn = (IF task.fn = "update_assignment_dates"
                    THEN "get_assignments_for_course"
                    ELSE "get_assignment_extensions")
     /\ task'.course_id = task.course_id
     /\ task.fn = "update_student_extension" =>
           task'.assignment_id = task.assignment_id) =>
        /\ ~task'.had
        /\ Len(calls') > 0
        /\ calls'[Len(calls')] = (IF task.fn = "update_assignment_dates"
                                  THEN "get_assignments"
                                  ELSE "get_extensions")

\* C39 as amended: whenever update_assignment_dates for course c returns
\* True the assignments cache holds no entry for c afterwards and the next
\* get_assignments_for_course(c) asks Gradescope again; likewise for
\* update_student_extension and the extensions entry of (c, a); the entries
\* of all other keys and the cached courses are left unchanged, and the
\* cached connection is left unchanged unless there was none, in which case
\* the update has stored the one it opened.
C39_UpdateClearsEntry ==
    /\ []NoEntryAfterTrue
    /\ [][RefetchedAfterTrue]_vars
    /\ [][UpdatedTrue =>
             /\ OtherEntriesKept
             /\ cache'.courses = cache.courses
             /\ cache'.connection =
                   IF IsNone(cache.connection) THEN Connection
                   ELSE cache.connection]_vars

\* C39 as stated: whenever an update returns True the cache holds no entry
\* for its key afterwards, and the cache entries for all other keys and
\* domains are left unchanged.
C39_AllOtherDomainsUnchanged ==
    /\ []NoEntryAfterTrue
    /\ [][UpdatedTrue =>
             /\ OtherEntriesKept
             /\ cache'.courses = cache.courses
             /\ cache'.connection = cache.connection]_vars

\* update_assignment_dates for course 1 has returned True and deleted the
\* entry of course 1, with the assignments of course 12, the extensions of
\* (1, 3) and the users of course 1 still cached
C39_Witness ==
    /\ task.fn = "update_assignment_dates"
    /\ task.course_id = <<"1">>
    /\ task.had
    /\ result = BoolV(TRUE)
    /\ DOMAIN cache.assignments = {<<"1", "2">>}
    /\ GsKey(<<"1">>, <<"3">>) \in DOMAIN cache.extensions
    /\ <<"1">> \in DOMAIN cache.users
    /\ ~IsNone(cache.connection)

====
